---- MODULE Spec2Model ----
(***************************************************************************)
(* Verification model of the agent-farm orchestration core:                *)
(*   - the multi-provider inference router   (orchestrator/llm_client.py)  *)
(*   - the learnings engine            (orchestrator/learnings_manager.py) *)
(*   - task selection and dispatch       (orchestrator/project_manager.py, *)
(*                                         orchestrator/main.py)           *)
(*   - the project lifecycle evaluation  (orchestrator/project_manager.py) *)
(* Each component has its own specification (SpecRouter, SpecLearn, ...);  *)
(* the variables of the other components stay at their initial value.      *)
(***************************************************************************)
EXTENDS Integers, Sequences, FiniteSets, TLC

VARIABLES
    \* ---- inference router (LLMClient and its three providers) ----
    ollama_up,          \* LLMClient._ollama_up: "None" | "up" | "down"
    available_models,   \* OllamaProvider._available_models: "None" or a list
    ollama_loaded,      \* environment: models the local server has loaded
    groq_key,           \* GroqProvider.api_key is non-empty
    claude_key,         \* ClaudeProvider.api_key is non-empty
    rpc,                \* position of the current complete() call
    rlevel,             \* its level argument
    rforce,             \* its force_provider argument ("" = auto routing)
    rtries,             \* attempts made by the retry wrapper of the current tier
    rlog,               \* provider invocations of the current call, in order
    rresult,            \* how the call ended
    \* ---- learnings engine (LearningsManager and the config store) ----
    stored,             \* the LearningsStore kept under LEARNINGS_KEY
    brief_cache,        \* the brief kept under BRIEF_KEY
    lclock,             \* extract_from_project calls so far (the clock of last_updated)
    lcall,              \* the last call: project id and return value
    ok_ids,             \* history: ids for which a call has returned true
    fail_hist,          \* history: failure entries written to the store, in order
    faults,             \* history: store operations that have failed
    feed,               \* the input feed of the ring scenario
    held,               \* the extract_from_project calls between load and save
    \* ---- task queue and dispatch (the store's Tasks and Agents tables and
    \* one orchestrator process per machine) ----
    tasks,              \* Tasks rows in created_at order
    agent_rows,         \* Agents rows registered in the store, by name
    max_concurrent,     \* config max_concurrent_agents
    autonomy_level,     \* config autonomy_level
    viability_threshold, \* config viability_threshold
    parallel_max,       \* config parallel_projects_max
    proc,               \* per machine: position in _assign_and_run_tasks
    crashes,            \* history: orchestrator processes killed so far
    \* ---- project lifecycle (the store's Projects and Revenue Log tables) ----
    projects,           \* Projects rows by id
    ledger,             \* Revenue Log rows
    today,              \* the clock, in days
    leval,              \* history: the last evaluation of a project
    \* ---- ideas and agent executions ----
    lidea,              \* history: the last idea handled by process_new_ideas
    lcheck,             \* history: the last viability check that returned
    pass,               \* the orchestrator's position in run_once
    lupdate,            \* history: the last call of check_and_update
    sched               \* the loop interval: the store's key, self.config, run_forever

routerVars == <<ollama_up, available_models, ollama_loaded, groq_key, claude_key,
                rpc, rlevel, rforce, rtries, rlog, rresult>>

learnVars == <<stored, brief_cache, lclock, lcall, ok_ids, fail_hist, faults, feed, held>>

queueVars == <<tasks, agent_rows, max_concurrent, autonomy_level, viability_threshold, parallel_max,
              proc, crashes>>

lifeVars == <<projects, ledger, today, leval>>

ideaVars == <<lidea, lcheck, pass, lupdate, sched>>

vars == <<routerVars, learnVars, queueVars, lifeVars, ideaVars>>

\* what each component leaves alone
notRouter == <<learnVars, queueVars, lifeVars, ideaVars>>
notLearn == <<routerVars, queueVars, lifeVars, ideaVars>>
notQueue == <<routerVars, learnVars, lifeVars, ideaVars>>

(***************************************************************************)
(* Generic sequence helpers                                                *)
(***************************************************************************)
Range(s) == {s[i] : i \in 1..Len(s)}

LastN(s, n) == IF Len(s) <= n THEN s ELSE SubSeq(s, Len(s) - n + 1, Len(s))

IsPrefix(p, s) == Len(p) <= Len(s) /\ SubSeq(s, 1, Len(p)) = p

(***************************************************************************)
(* Inference router                                                        *)
(***************************************************************************)
\* Model names are token lists; ":" is its own token, so that split(":")
\* and startswith() are computed on the name and not looked up.
Llama32_3b   == <<"llama3.2", ":", "3b">>
Llama32_1b   == <<"llama3.2", ":", "1b">>
Mistral_7b   == <<"mistral", ":", "7b">>
MistralNemo  == <<"mistral", "-nemo", ":", "12b">>
Llama31_8b   == <<"llama3.1", ":", "8b">>
GroqInstant  == <<"llama-3.1-8b-instant">>
GroqMixtral  == <<"mixtral-8x7b-32768">>
GroqVersatile == <<"llama-3.3-70b-versatile">>
ClaudeHaiku  == <<"claude-haiku-4-5-20251001">>

Levels == {"simple", "medium", "complex", "cloud", "claude"}

\* LLMLevel(level), falling back to MEDIUM on ValueError
LLMLevel(level) == IF level \in Levels THEN level ELSE "medium"

MODEL_ROUTING(lvl) ==
    CASE lvl = "simple"  -> [ollama |-> Llama32_3b, groq |-> GroqInstant]
      [] lvl = "medium"  -> [ollama |-> Mistral_7b, groq |-> GroqMixtral]
      [] lvl = "complex" -> [ollama |-> Llama31_8b, groq |-> GroqVersatile]
      [] lvl = "cloud"   -> [groq |-> GroqVersatile]
      [] lvl = "claude"  -> [claude |-> ClaudeHaiku]

\* model.split(":")[0]
RECURSIVE SplitColonHead(_)
SplitColonHead(m) ==
    IF m = <<>> \/ Head(m) = ":" THEN <<>>
    ELSE <<Head(m)>> \o SplitColonHead(Tail(m))

\* m.startswith(base)
StartsWith(m, base) == IsPrefix(base, m)

\* next((m for m in available if m.startswith(model.split(":")[0])), None)
Matched(available, model) ==
    LET hits == {i \in 1..Len(available) :
                    StartsWith(available[i], SplitColonHead(model))}
    IN IF hits = {} THEN "None"
       ELSE available[CHOOSE i \in hits : \A j \in hits : i <= j]

MaxAttempts == 3   \* stop_after_attempt(3) of both remote providers

Outcomes == {"ok", "http", "err"}   \* response | httpx.HTTPStatusError | other exception

\* retry=retry_if_exception_type(httpx.HTTPStatusError)
GroqRetries(outcome) == outcome = "http"

\* no retry= argument: tenacity retries on every exception
ClaudeRetries(outcome) == outcome # "ok"

\* faulty variant: the local completion is tried again after an HTTP error
OllamaRetriesHttp(outcome) == outcome = "http"

\* OllamaProvider.complete has no retry wrapper
OllamaRetries(outcome) == FALSE

OllamaInRouting(lvl) == "ollama" \in DOMAIN MODEL_ROUTING(lvl)

\* faulty variant: the key test of the free remote tier inverted
GroqEligibleInverted(lvl) == "groq" \in DOMAIN MODEL_ROUTING(lvl) /\ ~groq_key

GroqEligible(lvl) == "groq" \in DOMAIN MODEL_ROUTING(lvl) /\ groq_key

ClaudeEligible == claude_key

\* one provider invocation; model is the model a local invocation of auto
\* routing was made with
Entry(tier, outcome) == [tier |-> tier, outcome |-> outcome, model |-> <<>>]

RouterIdle ==
    /\ ollama_up = "None"
    /\ available_models = "None"
    /\ ollama_loaded = <<>>
    /\ groq_key = FALSE
    /\ claude_key = FALSE
    /\ rpc = "idle"
    /\ rlevel = "medium"
    /\ rforce = ""
    /\ rtries = 0
    /\ rlog = <<>>
    /\ rresult = "none"

\* what the local server may have loaded, in listing order
LoadedLists == {<<>>, <<MistralNemo, Mistral_7b>>, <<Llama32_1b, Llama31_8b>>}

RouterInit ==
    /\ ollama_up = "None"
    /\ available_models = "None"
    /\ ollama_loaded \in LoadedLists
    /\ groq_key \in BOOLEAN
    /\ claude_key \in BOOLEAN
    /\ rpc = "idle"
    /\ rlevel = "medium"
    /\ rforce = ""
    /\ rtries = 0
    /\ rlog = <<>>
    /\ rresult = "none"

\* LLMClient.complete up to the routing decision
Complete(level, force) ==
    /\ rpc = "idle"
    /\ rlevel' = LLMLevel(level)
    /\ rforce' = force
    /\ rlog' = <<>>
    /\ rtries' = 0
    /\ rresult' = "none"
    /\ rpc' = IF force # "" THEN "forced" ELSE "local"
    /\ UNCHANGED <<ollama_up, available_models, ollama_loaded, groq_key, claude_key>>
    /\ UNCHANGED notRouter

\* Auto routing, local tier: probe (cached), list models (cached on success),
\* prefix match, one attempt without retry.
LocalTier ==
    /\ rpc = "local"
    /\ \E probe \in {"up", "down"}, listed \in BOOLEAN, outcome \in Outcomes :
         LET up     == IF ollama_up = "None" THEN probe ELSE ollama_up
             inRt   == OllamaInRouting(rlevel)
             asked  == inRt /\ up = "up"
             models == IF available_models # "None" THEN available_models
                       ELSE IF listed THEN ollama_loaded ELSE <<>>
             m      == IF asked THEN Matched(models, MODEL_ROUTING(rlevel).ollama)
                       ELSE "None"
         IN /\ ollama_up' = IF inRt THEN up ELSE ollama_up
            /\ available_models' =
                  IF asked /\ available_models = "None" /\ listed
                  THEN ollama_loaded ELSE available_models
            /\ IF m # "None"
               THEN /\ rlog' = Append(rlog, [Entry("ollama", outcome) EXCEPT !.model = m])
                    /\ IF outcome = "ok"
                       THEN rpc' = "returned" /\ rresult' = "response"
                       ELSE IF OllamaRetries(outcome)
                       THEN rpc' = "local" /\ rresult' = rresult
                       ELSE rpc' = "groq" /\ rresult' = rresult
               ELSE /\ rlog' = rlog
                    /\ rpc' = "groq"
                    /\ rresult' = rresult
    /\ rtries' = 0
    /\ UNCHANGED <<ollama_loaded, groq_key, claude_key, rlevel, rforce>>
    /\ UNCHANGED notRouter

\* Auto routing, free remote tier: one attempt of GroqProvider.complete under
\* its retry wrapper; every exception leaving the wrapper is caught.
GroqTier ==
    /\ rpc = "groq"
    /\ IF ~GroqEligible(rlevel)
       THEN /\ rpc' = "claude"
            /\ rtries' = 0
            /\ UNCHANGED <<rlog, rresult>>
       ELSE \E outcome \in Outcomes :
            /\ rlog' = Append(rlog, Entry("groq", outcome))
            /\ IF outcome = "ok"
               THEN rpc' = "returned" /\ rresult' = "response" /\ rtries' = 0
               ELSE IF GroqRetries(outcome) /\ rtries + 1 < MaxAttempts
               THEN rpc' = "groq" /\ rresult' = rresult /\ rtries' = rtries + 1
               ELSE rpc' = "claude" /\ rresult' = rresult /\ rtries' = 0
    /\ UNCHANGED <<ollama_up, available_models, ollama_loaded, groq_key, claude_key,
                   rlevel, rforce>>
    /\ UNCHANGED notRouter

\* Auto routing, paid tier: ClaudeProvider.complete under its retry wrapper is
\* called outside any try block; without a key the RuntimeError is raised.
ClaudeTier ==
    /\ rpc = "claude"
    /\ IF ~ClaudeEligible
       THEN /\ rpc' = "returned"
            /\ rresult' = "NoProviderAvailable"
            /\ UNCHANGED <<rlog, rtries>>
       ELSE \E outcome \in Outcomes :
            /\ rlog' = Append(rlog, Entry("claude", outcome))
            /\ IF outcome = "ok"
               THEN rpc' = "returned" /\ rresult' = "response" /\ rtries' = 0
               ELSE IF ClaudeRetries(outcome) /\ rtries + 1 < MaxAttempts
               THEN rpc' = "claude" /\ rresult' = rresult /\ rtries' = rtries + 1
               ELSE rpc' = "returned" /\ rresult' = "RetryError" /\ rtries' = 0
    /\ UNCHANGED <<ollama_up, available_models, ollama_loaded, groq_key, claude_key,
                   rlevel, rforce>>
    /\ UNCHANGED notRouter

\* LLMClient._route_forced: the named provider is called directly
RouteForced ==
    /\ rpc = "forced"
    /\ \E outcome \in Outcomes :
         /\ IF rforce \notin {"ollama", "groq", "claude"}
            THEN rpc' = "returned" /\ rresult' = "ValueError"
                 /\ UNCHANGED <<rlog, rtries>>
            ELSE /\ rlog' = Append(rlog, Entry(rforce, outcome))
                 /\ IF outcome = "ok"
                    THEN rpc' = "returned" /\ rresult' = "response" /\ rtries' = 0
                    ELSE IF rforce = "ollama"
                    THEN rpc' = "returned" /\ rresult' = "ProviderError" /\ rtries' = 0
                    ELSE IF (IF rforce = "groq" THEN GroqRetries(outcome)
                                                ELSE ClaudeRetries(outcome))
                    THEN IF rtries + 1 < MaxAttempts
                         THEN rpc' = "forced" /\ rresult' = rresult
                              /\ rtries' = rtries + 1
                         ELSE rpc' = "returned" /\ rresult' = "RetryError"
                              /\ rtries' = 0
                    ELSE rpc' = "returned" /\ rresult' = "ProviderError" /\ rtries' = 0
    /\ UNCHANGED <<ollama_up, available_models, ollama_loaded, groq_key, claude_key,
                   rlevel, rforce>>
    /\ UNCHANGED notRouter

\* environment: models are pulled to or removed from the local server
\* between two calls
OllamaReload(loaded) ==
    /\ rpc = "idle"
    /\ ollama_loaded # loaded
    /\ ollama_loaded' = loaded
    /\ UNCHANGED <<ollama_up, available_models, groq_key, claude_key, rpc, rlevel, rforce,
                   rtries, rlog, rresult>>
    /\ UNCHANGED notRouter

\* LLMClient.get_status: the probe (cached) and, when the local tier is up,
\* the model list (cached on success)
get_status ==
    /\ rpc = "idle"
    /\ \E probe \in {"up", "down"}, listed \in BOOLEAN :
         LET up == IF ollama_up = "None" THEN probe ELSE ollama_up
         IN /\ ollama_up' = up
            /\ available_models' =
                  IF up = "up" /\ available_models = "None" /\ listed
                  THEN ollama_loaded ELSE available_models
    /\ UNCHANGED <<ollama_loaded, groq_key, claude_key, rpc, rlevel, rforce, rtries,
                   rlog, rresult>>
    /\ UNCHANGED notRouter

\* the call has returned or raised; the client is ready for the next call
Returned ==
    /\ rpc = "returned"
    /\ rpc' = "idle"
    /\ UNCHANGED <<ollama_up, available_models, ollama_loaded, groq_key, claude_key,
                   rlevel, rforce, rtries, rlog, rresult>>
    /\ UNCHANGED notRouter

RouterNext ==
    \/ \E level \in Levels \cup {"bogus"}, force \in {"", "ollama", "groq", "claude", "other"} :
          Complete(level, force)
    \/ LocalTier
    \/ GroqTier
    \/ ClaudeTier
    \/ RouteForced
    \/ Returned
    \/ get_status
    \/ \E loaded \in LoadedLists : OllamaReload(loaded)


(***************************************************************************)
(* Learnings engine                                                        *)
(***************************************************************************)
\* Strings whose case and surrounding whitespace matter are records: w is the
\* lower-case, trimmed text (a tuple, <<>> for no text), up says that the text
\* has upper-case letters, pad that it has leading or trailing whitespace.
Str(w, up, pad) == [w |-> w, up |-> up, pad |-> pad]

EmptyStr == Str(<<>>, FALSE, FALSE)

\* str.lower()
Lower(x) == [x EXCEPT !.up = FALSE]

\* str.strip()
Strip(x) == [x EXCEPT !.pad = FALSE]

\* truth value of a str
Truthy(x) == x # EmptyStr

MaxPatterns == 20   \* successful_patterns and failure_patterns
MaxNiches == 10     \* market_insights
MaxAvoid == 15      \* avoid_list

Categories == {"saas", "other"}

NoScore == <<>>     \* viability_score is None

EMPTY_LEARNINGS ==
    [successful_patterns |-> <<>>,
     failure_patterns |-> <<>>,
     category_performance |->
        [c \in Categories |-> [revenue_sum |-> 0, successes |-> 0, count |-> 0]],
     viability_insights |->
        [avg_score_of_successes |-> NoScore, avg_score_of_failures |-> NoScore],
     market_insights |-> <<>>,
     avoid_list |-> <<>>,
     meta |-> [total_projects_analyzed |-> 0, last_updated |-> 0,
               analyzed_project_ids |-> <<>>]]

\* LearningsManager._update_category_perf; avg_revenue and success_rate are
\* kept as the exact sums they are the incremental means of:
\* avg_revenue = revenue_sum / count, success_rate = successes / count.
update_category_perf(data, category, success, revenue) ==
    LET cat == data.category_performance[category]
    IN [data EXCEPT !.category_performance[category] =
           [revenue_sum |-> cat.revenue_sum + revenue,
            successes |-> cat.successes + (IF success THEN 1 ELSE 0),
            count |-> cat.count + 1]]

\* LearningsManager._update_rolling_avg on an optional score
update_rolling_avg(current, new_value) ==
    IF current = NoScore THEN new_value
    ELSE <<(current[1] + new_value[1]) \div 2>>

\* if len(patterns) > cap: patterns = patterns[-cap:]
Trim(patterns, cap) == LastN(patterns, cap)

\* existing_count of _merge_learning_into_data
ExistingCount(failure_patterns, avoid_pat) ==
    Cardinality({i \in 1..Len(failure_patterns) :
                    Lower(failure_patterns[i].avoid_pattern) = Lower(avoid_pat)})

\* already_listed of _merge_learning_into_data
AlreadyListed(avoid_list, avoid_pat) ==
    \E i \in 1..Len(avoid_list) : Lower(avoid_list[i]) = Lower(avoid_pat)

\* for niche in recommended_niches: append when non-empty and not yet listed
RECURSIVE AddNiches(_, _)
AddNiches(market_insights, niches) ==
    IF niches = <<>> THEN market_insights
    ELSE LET n == Head(niches)
         IN AddNiches(IF n # <<>> /\ n \notin Range(market_insights)
                      THEN Append(market_insights, n) ELSE market_insights,
                      Tail(niches))

\* learning.get("category") or self._infer_category(project)
CategoryOf(learning, project) ==
    IF learning.category # "" THEN learning.category ELSE project.inferred

\* LearningsManager._merge_learning_into_data
merge_learning_into_data(data, learning, outcome, project) ==
    LET category == CategoryOf(learning, project)
        score == project.viability_score
        merged ==
          IF outcome = "failure"
          THEN LET entry == [project |-> project.name, category |-> category,
                             avoid_pattern |-> learning.avoid_pattern]
                   fps == Trim(Append(data.failure_patterns, entry), MaxPatterns)
                   avoid_pat == Strip(learning.avoid_pattern)
                   promote == /\ Truthy(avoid_pat)
                              /\ ExistingCount(fps, avoid_pat) >= 2
                              /\ ~AlreadyListed(data.avoid_list, avoid_pat)
                   d1 == [data EXCEPT
                            !.failure_patterns = fps,
                            !.avoid_list =
                               IF promote THEN Trim(Append(@, avoid_pat), MaxAvoid)
                               ELSE @]
                   d2 == update_category_perf(d1, category, FALSE, project.revenue_30d)
               IN IF score = NoScore THEN d2
                  ELSE [d2 EXCEPT !.viability_insights.avg_score_of_failures =
                                     update_rolling_avg(@, score)]
          ELSE LET entry == [project |-> project.name, category |-> category,
                             replicable_pattern |-> learning.replicable_pattern]
                   d1 == [data EXCEPT
                            !.successful_patterns =
                               Trim(Append(@, entry), MaxPatterns),
                            !.market_insights =
                               Trim(AddNiches(@, learning.recommended_niches), MaxNiches)]
                   d2 == update_category_perf(d1, category, TRUE, project.revenue_30d)
               IN IF score = NoScore THEN d2
                  ELSE [d2 EXCEPT !.viability_insights.avg_score_of_successes =
                                     update_rolling_avg(@, score)]
    IN [merged EXCEPT
          !.meta.total_projects_analyzed = @ + 1,
          !.meta.analyzed_project_ids =
             IF project.id # <<>> THEN Append(@, project.id) ELSE @]

\* LearningsManager._build_brief_text: the parts of the data the text is made of
build_brief_text(data) ==
    IF data.meta.total_projects_analyzed = 0 THEN <<>>
    ELSE <<[n |-> data.meta.total_projects_analyzed,
            works |-> LastN(data.successful_patterns, 5),
            failed |-> LastN(data.failure_patterns, 5),
            categories |-> data.category_performance,
            avoid |-> data.avoid_list,
            calibration |-> data.viability_insights,
            niches |-> SubSeq(data.market_insights, 1,
                              IF Len(data.market_insights) < 5
                              THEN Len(data.market_insights) ELSE 5)]>>

\* LearningsManager._load_learnings: a failed or unparsable read starts fresh
load_learnings(readOk) == IF readOk THEN stored ELSE EMPTY_LEARNINGS

\* What the model call and _parse_json_safe hand back: an exception, None,
\* or a dict.
Raised == [kind |-> "raise", category |-> "", avoid_pattern |-> EmptyStr,
           replicable_pattern |-> "", recommended_niches |-> <<>>]

ParsedNone == [Raised EXCEPT !.kind = "None"]

FailureLearning(category, avoid_pattern) ==
    [Raised EXCEPT !.kind = "dict", !.category = category,
                   !.avoid_pattern = avoid_pattern]

SuccessLearning(category, niches) ==
    [Raised EXCEPT !.kind = "dict", !.category = category,
                   !.replicable_pattern = "pattern", !.recommended_niches = niches]

\* LearningsManager.extract_from_project with _save_learnings.
\* readOk: the read of the stored learnings succeeded; learning: what the
\* extraction produced; saved: "ok", "none" (the write of the learnings
\* failed) or "no_brief" (the learnings were written, the brief was not).
extract_from_project(project, outcome, readOk, learning, saved) ==
    LET data == load_learnings(readOk)
        skip == project.id # <<>> /\ project.id \in Range(data.meta.analyzed_project_ids)
        merges == ~skip /\ learning.kind = "dict"
        merged == merge_learning_into_data(data, learning, outcome, project)
        written == [merged EXCEPT !.meta.last_updated = lclock + 1]
        ret == merges /\ saved = "ok"
    IN /\ lclock' = lclock + 1
       /\ stored' = IF merges /\ saved # "none" THEN written ELSE stored
       /\ brief_cache' = IF merges /\ saved = "ok" THEN build_brief_text(written)
                         ELSE brief_cache
       /\ lcall' = [id |-> project.id, ret |-> ret]
       /\ ok_ids' = IF ret THEN ok_ids \cup {project.id} ELSE ok_ids
       /\ fail_hist' = IF merges /\ saved # "none" /\ outcome = "failure"
                       THEN Append(fail_hist, written.failure_patterns[Len(written.failure_patterns)])
                       ELSE fail_hist
       /\ faults' = faults + (IF readOk THEN 0 ELSE 1)
                         + (IF merges /\ saved # "ok" THEN 1 ELSE 0)
       /\ UNCHANGED <<feed, held>>

NoFeed == [kind |-> "none", k |-> 0]

LearnIdle ==
    /\ stored = EMPTY_LEARNINGS
    /\ brief_cache = <<>>
    /\ lclock = 0
    /\ lcall = [id |-> <<>>, ret |-> FALSE]
    /\ ok_ids = {}
    /\ fail_hist = <<>>
    /\ faults = 0
    /\ feed = NoFeed
    /\ held = {}

MaxExtractions == 3      \* calls of extract_from_project in one behaviour
MaxFaults == 1           \* store operations that fail in one behaviour

Project(id, name, inferred, revenue_30d, viability_score) ==
    [id |-> id, name |-> name, inferred |-> inferred,
     revenue_30d |-> revenue_30d, viability_score |-> viability_score]

LearnProjects ==
    {Project(<<"p1">>, "Alpha", "saas", 0, <<32>>),
     Project(<<"p2">>, "Beta", "other", 12, <<64>>),
     Project(<<>>, "Gamma", "other", 0, NoScore)}

AvoidPatterns ==
    {Str(<<"a">>, FALSE, FALSE), Str(<<"a">>, TRUE, FALSE), Str(<<"a">>, FALSE, TRUE),
     Str(<<"b">>, FALSE, FALSE), EmptyStr}

Learnings(outcome) ==
    {Raised, ParsedNone} \cup
    IF outcome = "failure"
    THEN {FailureLearning("", a) : a \in AvoidPatterns}
    ELSE {SuccessLearning("", <<<<"n1">>, <<>>>>), SuccessLearning("saas", <<<<"n1">>, <<"n2">>>>)}

\* the outcomes of the store operations of one call: the read, then the save
StoreResults ==
    {<<TRUE, "ok">>} \cup
    IF faults < MaxFaults
    THEN {<<FALSE, "ok">>, <<TRUE, "none">>, <<TRUE, "no_brief">>}
    ELSE {}

LearnExtract ==
    /\ lclock < MaxExtractions
    /\ \E project \in LearnProjects, outcome \in {"failure", "success"},
          io \in StoreResults :
         \E learning \in Learnings(outcome) :
            extract_from_project(project, outcome, io[1], learning, io[2])
    /\ UNCHANGED notLearn

LearnNext == LearnExtract

\* ---- two callers of extract_from_project on one store ----
\* the first part of extract_from_project: _load_learnings and the test of
\* analyzed_project_ids; a call that goes on holds what it loaded
ExtractLoad(project, outcome) ==
    LET data == load_learnings(TRUE)
        skip == project.id # <<>> /\ project.id \in Range(data.meta.analyzed_project_ids)
    IN /\ lclock' = lclock + 1
       /\ held' = IF skip THEN held
                  ELSE held \cup {[project |-> project, outcome |-> outcome, data |-> data]}
       /\ lcall' = IF skip THEN [id |-> project.id, ret |-> FALSE] ELSE lcall
       /\ UNCHANGED <<stored, brief_cache, ok_ids, fail_hist, faults, feed>>

\* the second part of extract_from_project: the extraction, the merge into
\* the loaded data and _save_learnings
ExtractSave(call, learning) ==
    LET merges == learning.kind = "dict"
        merged == merge_learning_into_data(call.data, learning, call.outcome, call.project)
        written == [merged EXCEPT !.meta.last_updated = lclock]
    IN /\ held' = held \ {call}
       /\ stored' = IF merges THEN written ELSE stored
       /\ brief_cache' = IF merges THEN build_brief_text(written) ELSE brief_cache
       /\ lcall' = [id |-> call.project.id, ret |-> merges]
       /\ ok_ids' = IF merges THEN ok_ids \cup {call.project.id} ELSE ok_ids
       /\ UNCHANGED <<lclock, fail_hist, faults, feed>>

MaxCalls == 2      \* calls of extract_from_project in one behaviour

TwoProjects == {p \in LearnProjects : p.id # <<>>}

InterleaveNext ==
    \/ /\ lclock < MaxCalls
       /\ \E project \in TwoProjects, outcome \in {"failure", "success"} :
             /\ \A call \in held : call.project # project
             /\ ExtractLoad(project, outcome)
       /\ UNCHANGED notLearn
    \/ /\ \E call \in held : \E learning \in Learnings(call.outcome) :
             ExtractSave(call, learning)
       /\ UNCHANGED notLearn

\* ---- the ring scenario: one project after the other is analysed, all with
\* the same outcome; project i brings the label (i-1) mod k + 1 ----
MaxFeed == 33      \* projects in the feed
MaxKinds == 16     \* distinct labels in the feed

FeedProject(i) == Project(<<i>>, i, "other", 0, NoScore)

FeedLabel(i) == <<((i - 1) % feed.k) + 1>>

FeedLearning(i) ==
    IF feed.kind = "failure"
    THEN FailureLearning("", Str(FeedLabel(i), FALSE, FALSE))
    ELSE SuccessLearning("", <<FeedLabel(i)>>)

RingInit ==
    /\ stored = EMPTY_LEARNINGS
    /\ brief_cache = <<>>
    /\ lclock = 0
    /\ lcall = [id |-> <<>>, ret |-> FALSE]
    /\ ok_ids = {}
    /\ fail_hist = <<>>
    /\ faults = 0
    /\ feed \in [kind : {"failure", "success"}, k : 1..MaxKinds]
    /\ held = {}

RingExtract ==
    /\ lclock < MaxFeed
    /\ \E io \in StoreResults :
         extract_from_project(FeedProject(lclock + 1), feed.kind, io[1],
                              FeedLearning(lclock + 1), io[2])
    /\ UNCHANGED notLearn

RingNext == RingExtract


(***************************************************************************)
(* Task queue and dispatch                                                 *)
(***************************************************************************)
\* Names are token lists, so that "contains" is computed; the tokens that
\* have an upper-case letter are lowered by LowerTok.
LowerTok(t) == CASE t = "Alpha" -> "alpha" [] t = "Beta" -> "beta" [] OTHER -> t

\* str.lower() of a name
LowerName(n) == [i \in 1..Len(n) |-> LowerTok(n[i])]

\* needle in hay (substring)
Contains(hay, needle) ==
    \E i \in 0..(Len(hay) - Len(needle)) : SubSeq(hay, i + 1, i + Len(needle)) = needle

MachineA == <<"Alpha">>     \* no agent registered: runs the default agents
MachineB == <<"Beta">>      \* one research agent registered
Machines == {MachineA, MachineB}

BetaResearch == <<"beta", "-research">>
AlphaTrader == <<"alpha", "-trader">>

\* Orchestrator._get_default_agents
DefaultAgents(machine_name) ==
    <<[id |-> "", name |-> <<"research", "-default">>, type |-> "research",
       machine |-> machine_name, status |-> "idle", tasks_completed |-> 0, success_sum |-> 0],
      [id |-> "", name |-> <<"code", "-default">>, type |-> "code",
       machine |-> machine_name, status |-> "idle", tasks_completed |-> 0, success_sum |-> 0],
      [id |-> "", name |-> <<"content", "-default">>, type |-> "content",
       machine |-> machine_name, status |-> "idle", tasks_completed |-> 0, success_sum |-> 0]>>

\* the registered agents in the order the store lists them
RegisteredNames ==
    SelectSeq(<<BetaResearch, AlphaTrader>>, LAMBDA n : n \in DOMAIN agent_rows)

\* NotionFarmClient.get_agents(machine=...): rows whose machine contains the name
RECURSIVE RowsOf(_, _)
RowsOf(names, machine_name) ==
    IF names = <<>> THEN <<>>
    ELSE (IF Contains(agent_rows[Head(names)].machine, machine_name)
          THEN <<agent_rows[Head(names)]>> ELSE <<>>)
         \o RowsOf(Tail(names), machine_name)

get_agents(machine_name) == RowsOf(RegisteredNames, machine_name)

\* priority_order.get(t.get("priority", "medium"), 2)
PriorityRank(priority) ==
    CASE priority = "urgent" -> 0
      [] priority = "high" -> 1
      [] priority = "medium" -> 2
      [] priority = "low" -> 3
      [] OTHER -> 2

\* NotionFarmClient.get_tasks(status=...): ids in created_at order
RECURSIVE IdsWhere(_, _)
IdsWhere(status, upto) ==
    IF upto = 0 THEN <<>>
    ELSE IdsWhere(status, upto - 1)
         \o (IF tasks[upto].status = status THEN <<upto>> ELSE <<>>)

get_tasks(status) == IdsWhere(status, Len(tasks))

\* faulty variant: tasks that need a human are not dropped
ActionableAll(id) == TRUE

\* not t.get("requires_human")
Actionable(id) == ~tasks[id].requires_human

\* faulty variant: a task is placed before the tasks of its own rank
InsertBeforeTies(sorted, id) ==
    LET before == {i \in 1..Len(sorted) :
                      PriorityRank(tasks[sorted[i]].priority) < PriorityRank(tasks[id].priority)}
        n == Cardinality(before)
    IN SubSeq(sorted, 1, n) \o <<id>> \o SubSeq(sorted, n + 1, Len(sorted))

\* list.sort(key=...) is stable: a task goes after every task of a rank that
\* is not greater than its own
InsertByRank(sorted, id) ==
    LET before == {i \in 1..Len(sorted) :
                      PriorityRank(tasks[sorted[i]].priority) <= PriorityRank(tasks[id].priority)}
        n == Cardinality(before)
    IN SubSeq(sorted, 1, n) \o <<id>> \o SubSeq(sorted, n + 1, Len(sorted))

RECURSIVE SortByRank(_)
SortByRank(ids) ==
    IF ids = <<>> THEN <<>>
    ELSE InsertByRank(SortByRank(SubSeq(ids, 1, Len(ids) - 1)), ids[Len(ids)])

\* current_load: in_progress tasks whose agent contains the machine name
CurrentLoad(machine_name) ==
    Cardinality({i \in 1..Len(tasks) :
                    /\ tasks[i].status = "in_progress"
                    /\ Contains(LowerName(tasks[i].agent), LowerName(machine_name))})

AvailableSlots(machine_name, limit) ==
    IF limit - CurrentLoad(machine_name) > 0 THEN limit - CurrentLoad(machine_name) ELSE 0

\* ProjectManager.get_pending_tasks_for_machine
get_pending_tasks_for_machine(machine_name, limit) ==
    LET slots == AvailableSlots(machine_name, limit)
        actionable == SelectSeq(get_tasks("pending"), Actionable)
        sorted == SortByRank(actionable)
    IN IF slots = 0 THEN <<>>
       ELSE SubSeq(sorted, 1, IF Len(sorted) < slots THEN Len(sorted) ELSE slots)

AgentTypes == {"research", "code", "content", "trading"}

\* agent_factory._infer_agent_type on the keywords the text contains
infer_agent_type(text) ==
    IF text \cap {"RESEARCH", "VIABILITY", "ANALYZE", "MARKET", "OPPORTUNITY", "GENERATE_IDEAS"} # {}
    THEN "research"
    ELSE IF text \cap {"CODE", "WRITE_CODE", "CREATE_API", "LANDING", "SCRIPT", "DEPLOY", "BUILD"} # {}
    THEN "code"
    ELSE IF text \cap {"CONTENT", "ARTICLE", "BLOG", "SEO", "EMAIL", "SOCIAL", "COPY", "WRITE"} # {}
    THEN "content"
    ELSE IF text \cap {"TRADING", "CRYPTO", "MARKET", "ARBITRAGE", "BACKTEST", "FINANCIAL"} # {}
    THEN "trading"
    ELSE "research"

NoAgent == [id |-> "", name |-> <<>>, type |-> "", machine |-> <<>>, status |-> "",
            tasks_completed |-> 0, success_sum |-> 0]

\* agent_factory.create_agent: None for a type without a class
create_agent(agent_config) ==
    IF agent_config.type \in AgentTypes THEN agent_config ELSE NoAgent

FirstWhere(agents, Test(_)) ==
    LET hits == {i \in 1..Len(agents) : Test(agents[i])}
    IN IF hits = {} THEN NoAgent
       ELSE agents[CHOOSE i \in hits : \A j \in hits : i <= j]

\* agent_factory.get_agent_for_task on the task as it was read
get_agent_for_task(task, available_agents) ==
    LET Named(a) == a.name = task.agent /\ a.status # "working"
        Idle(a) == a.status \in {"idle", ""}
        IdleTyped(a) == Idle(a) /\ a.type = infer_agent_type(task.text \cup task.title)
    IN IF task.agent # <<>> /\ FirstWhere(available_agents, Named) # NoAgent
       THEN create_agent(FirstWhere(available_agents, Named))
       ELSE IF FirstWhere(available_agents, IdleTyped) # NoAgent
       THEN create_agent(FirstWhere(available_agents, IdleTyped))
       ELSE IF FirstWhere(available_agents, Idle) # NoAgent
       THEN create_agent(FirstWhere(available_agents, Idle))
       ELSE NoAgent

Task(project, priority, requires_human, agent, text, title) ==
    [project |-> project, title |-> title, status |-> "pending", priority |-> priority,
     requires_human |-> requires_human, agent |-> agent, text |-> text,
     completed_at |-> FALSE, started_by |-> <<>>]

IdleProc == [pc |-> "idle", agents |-> <<>>, sel |-> <<>>, cur |-> 0, agent |-> NoAgent]

\* NotionFarmClient.create_task
create_task(project, priority, requires_human, agent, text, title) ==
    /\ tasks' = Append(tasks, Task(project, priority, requires_human, agent, text, title))
    /\ UNCHANGED <<agent_rows, max_concurrent, autonomy_level, viability_threshold, parallel_max, proc, crashes>>
    /\ UNCHANGED notQueue

\* what _assign_and_run_tasks holds when it enters the loop over the tasks
Selection(m) ==
    LET registered == get_agents(m)
        agents == IF registered = <<>> THEN DefaultAgents(m) ELSE registered
        ids == get_pending_tasks_for_machine(m, max_concurrent)
    IN [pc |-> "loop", agents |-> agents, cur |-> 0, agent |-> NoAgent,
        sel |-> [i \in 1..Len(ids) |->
                   [id |-> ids[i], agent |-> tasks[ids[i]].agent,
                    text |-> tasks[ids[i]].text, title |-> tasks[ids[i]].title]]]

\* Orchestrator._assign_and_run_tasks up to the loop over the tasks
AssignAndRun(m) ==
    /\ proc[m].pc = "idle"
    /\ autonomy_level # 0
    /\ get_pending_tasks_for_machine(m, max_concurrent) # <<>>
    /\ proc' = [proc EXCEPT ![m] = Selection(m)]
    /\ UNCHANGED <<tasks, agent_rows, max_concurrent, autonomy_level, viability_threshold, parallel_max, crashes>>
    /\ UNCHANGED notQueue

\* NotionFarmClient.update_agent_status, for agents that have a row
update_agent_status(rows, agent, status) ==
    IF agent.id = "" THEN rows ELSE [rows EXCEPT ![agent.name].status = status]

\* NotionFarmClient.increment_agent_stats from the config the agent was built
\* with; success_rate = success_sum / tasks_completed
increment_agent_stats(rows, agent, success) ==
    IF agent.id = "" THEN rows
    ELSE [rows EXCEPT ![agent.name].tasks_completed = agent.tasks_completed + 1,
                      ![agent.name].success_sum =
                          agent.success_sum + (IF success THEN 1 ELSE 0)]

\* faulty variant: every update stamps completed_at
update_task_stamping(rows, task_id, status, agent) ==
    [rows EXCEPT ![task_id].status = status,
                 ![task_id].agent = IF agent # <<>> THEN agent ELSE @,
                 ![task_id].completed_at = TRUE]

\* NotionFarmClient.update_task
update_task(rows, task_id, status, agent) ==
    [rows EXCEPT ![task_id].status = status,
                 ![task_id].agent = IF agent # <<>> THEN agent ELSE @,
                 ![task_id].completed_at = IF status \in {"done", "failed"} THEN TRUE ELSE @]

\* ResearchAgent._execute takes the viability branch
IsViabilityRun(m) ==
    /\ proc[m].agent.type = "research"
    /\ "VIABILITY_CHECK" \in tasks[proc[m].cur].text

\* TradingAgent._execute takes the crypto analysis branch
IsCryptoRun(m) ==
    /\ proc[m].agent.type = "trading"
    /\ "ANALYZE_CRYPTO" \in tasks[proc[m].cur].text

\* the loop body up to BaseAgent.run marking the task in_progress
RunStart(m) ==
    /\ proc[m].pc = "loop"
    /\ IF proc[m].sel = <<>>
       THEN /\ proc' = [proc EXCEPT ![m] = IdleProc]
            /\ UNCHANGED <<tasks, agent_rows>>
       ELSE LET task == Head(proc[m].sel)
                agent == get_agent_for_task(task, proc[m].agents)
            IN IF agent = NoAgent
               THEN /\ proc' = [proc EXCEPT ![m].sel = Tail(@)]
                    /\ UNCHANGED <<tasks, agent_rows>>
               ELSE /\ tasks' = [update_task(tasks, task.id, "in_progress", agent.name)
                                  EXCEPT ![task.id].started_by = m]
                    /\ agent_rows' = update_agent_status(agent_rows, agent, "working")
                    /\ proc' = [proc EXCEPT ![m].pc = "running", ![m].cur = task.id,
                                            ![m].agent = agent]
    /\ UNCHANGED <<max_concurrent, autonomy_level, viability_threshold, parallel_max, crashes>>
    /\ UNCHANGED notQueue

\* the writes of BaseAgent.run after _execute, on the Agents table
AgentsAfterRun(m, status) ==
    update_agent_status(increment_agent_stats(agent_rows, proc[m].agent, status = "done"),
                        proc[m].agent, IF status = "done" THEN "idle" ELSE "error")

\* the orchestrator goes on with the next selected task
ProcAfterRun(m) ==
    [proc EXCEPT ![m].pc = "loop", ![m].sel = Tail(@), ![m].cur = 0, ![m].agent = NoAgent]

\* the rest of BaseAgent.run: _execute returned (done) or raised (failed).
\* The executions that write to the store themselves are ViabilityCheck and
\* AnalyzeCrypto; they raise before any write of their own.
RunFinish(m, status) ==
    /\ proc[m].pc = "running"
    /\ status = "done" => (~IsViabilityRun(m) /\ ~IsCryptoRun(m))
    /\ tasks' = update_task(tasks, proc[m].cur, status, proc[m].agent.name)
    /\ agent_rows' = AgentsAfterRun(m, status)
    /\ proc' = ProcAfterRun(m)
    /\ UNCHANGED <<max_concurrent, autonomy_level, viability_threshold, parallel_max, crashes>>
    /\ UNCHANGED notQueue

\* _execute raised and the first write of the except branch of
\* BaseAgent.run, update_task(task_id, status="failed"), raises after its
\* retries: run raises and _assign_and_run_tasks is left
RunHandlerRaises(m) ==
    /\ proc[m].pc = "running"
    /\ proc' = [proc EXCEPT ![m] = IdleProc]
    /\ UNCHANGED <<tasks, agent_rows, max_concurrent, autonomy_level, viability_threshold, parallel_max, crashes>>
    /\ UNCHANGED notQueue

\* TradingAgent._analyze_crypto up to its return: the report is marked for
\* human review
AnalyzeCrypto(m) ==
    /\ proc[m].pc = "running"
    /\ IsCryptoRun(m)
    /\ tasks' = IF ~tasks[proc[m].cur].requires_human
                THEN update_task(tasks, proc[m].cur, "needs_human", <<>>)
                ELSE tasks
    /\ proc' = [proc EXCEPT ![m].pc = "executed"]
    /\ UNCHANGED <<agent_rows, max_concurrent, autonomy_level, viability_threshold, parallel_max, crashes>>
    /\ UNCHANGED notQueue

\* the rest of BaseAgent.run after _analyze_crypto has returned
CryptoReturn(m) ==
    /\ proc[m].pc = "executed"
    /\ tasks' = update_task(tasks, proc[m].cur, "done", proc[m].agent.name)
    /\ agent_rows' = AgentsAfterRun(m, "done")
    /\ proc' = ProcAfterRun(m)
    /\ UNCHANGED <<max_concurrent, autonomy_level, viability_threshold, parallel_max, crashes>>
    /\ UNCHANGED notQueue

MaxTasks == 2       \* tasks created in one behaviour
MaxCrashes == 1     \* processes killed in one behaviour

\* the orchestrator process is killed and started again; what it had written
\* to the store stays
Crash(m) ==
    /\ proc[m].pc # "idle"
    /\ crashes < MaxCrashes
    /\ crashes' = crashes + 1
    /\ proc' = [proc EXCEPT ![m] = IdleProc]
    /\ UNCHANGED <<tasks, agent_rows, max_concurrent, autonomy_level, viability_threshold, parallel_max>>
    /\ UNCHANGED notQueue

QueueIdle ==
    /\ tasks = <<>>
    /\ agent_rows = [n \in {BetaResearch} |->
                       [id |-> "row1", name |-> n, type |-> "research", machine |-> MachineB,
                        status |-> "idle", tasks_completed |-> 0, success_sum |-> 0]]
    /\ max_concurrent = 3
    /\ autonomy_level = 7
    /\ viability_threshold = 60
    /\ parallel_max = 10
    /\ proc = [m \in Machines |-> IdleProc]
    /\ crashes = 0

QueueInit ==
    /\ tasks = <<>>
    /\ agent_rows = [n \in {BetaResearch} |->
                       [id |-> "row1", name |-> n, type |-> "research", machine |-> MachineB,
                        status |-> "idle", tasks_completed |-> 0, success_sum |-> 0]]
    /\ max_concurrent \in {1, 2}
    /\ autonomy_level \in {0, 7}
    /\ viability_threshold = 60
    /\ parallel_max = 10
    /\ proc = [m \in Machines |-> IdleProc]
    /\ crashes = 0

QueueNext ==
    \/ \E priority \in {"urgent", "low"}, requires_human \in BOOLEAN :
          Len(tasks) < MaxTasks /\ create_task(<<>>, priority, requires_human, <<>>, {"RESEARCH"}, {})
    \/ \E m \in Machines : AssignAndRun(m)
    \/ \E m \in Machines : RunStart(m)
    \/ \E m \in Machines, status \in {"done", "failed"} : RunFinish(m, status)
    \/ \E m \in Machines : Crash(m)

\* ---- selection alone, over the task tables of a bounded size ----
MaxSelTasks == 5

Priorities == {"urgent", "high", "medium", "low"}

RECURSIVE TaskTables(_)
TaskTables(n) ==
    IF n = 0 THEN {<<>>}
    ELSE LET shorter == TaskTables(n - 1)
         IN shorter \cup
            {Append(t, Task(<<>>, p, h, <<>>, {"RESEARCH"}, {})) :
                t \in {x \in shorter : Len(x) = n - 1},
                p \in Priorities, h \in BOOLEAN}

SelectInit ==
    /\ tasks \in TaskTables(MaxSelTasks)
    /\ agent_rows = [n \in {BetaResearch} |->
                       [id |-> "row1", name |-> n, type |-> "research", machine |-> MachineB,
                        status |-> "idle", tasks_completed |-> 0, success_sum |-> 0]]
    /\ max_concurrent \in {1, 3}
    /\ autonomy_level = 7
    /\ viability_threshold = 60
    /\ parallel_max = 10
    /\ proc = [m \in Machines |-> IdleProc]
    /\ crashes = 0

SelectNext == AssignAndRun(MachineA)

\* a machine with two registered agents of any type and status, and one
\* pending task
AgentsInit ==
    /\ \E agent \in {<<>>, AlphaTrader}, text \in {{"CODE"}, {"MARKET"}, {"BACKTEST"}} :
          tasks = <<Task(<<>>, "medium", FALSE, agent, text, {})>>
    /\ \E types \in [{BetaResearch, AlphaTrader} -> {"research", "trading", "marketing"}],
          statuses \in [{BetaResearch, AlphaTrader} ->
                         {"idle", "working", "error", "disabled"}] :
          agent_rows = [n \in {BetaResearch, AlphaTrader} |->
                          [id |-> "row", name |-> n, type |-> types[n],
                           machine |-> MachineA, status |-> statuses[n],
                           tasks_completed |-> 0, success_sum |-> 0]]
    /\ max_concurrent = 3
    /\ autonomy_level = 7
    /\ viability_threshold = 60
    /\ parallel_max = 10
    /\ proc = [m \in Machines |-> IdleProc]
    /\ crashes = 0

AgentsNext ==
    \/ AssignAndRun(MachineA)
    \/ RunStart(MachineA)
    \/ \E status \in {"done", "failed"} : RunFinish(MachineA, status)

\* a machine with a registered trading agent
TradeInit ==
    /\ tasks = <<>>
    /\ agent_rows = [n \in {BetaResearch, AlphaTrader} |->
                       IF n = BetaResearch
                       THEN [id |-> "row1", name |-> n, type |-> "research",
                             machine |-> MachineB, status |-> "idle",
                             tasks_completed |-> 0, success_sum |-> 0]
                       ELSE [id |-> "row2", name |-> n, type |-> "trading",
                             machine |-> MachineA, status |-> "idle",
                             tasks_completed |-> 0, success_sum |-> 0]]
    /\ max_concurrent \in {1, 2}
    /\ autonomy_level = 7
    /\ viability_threshold = 60
    /\ parallel_max = 10
    /\ proc = [m \in Machines |-> IdleProc]
    /\ crashes = 0

CryptoText == {"ANALYZE_CRYPTO", "ANALYZE", "CRYPTO"}

TradeNext ==
    \/ \E requires_human \in BOOLEAN, agent \in {<<>>, AlphaTrader},
          text \in {CryptoText, {"BACKTEST"}} :
          Len(tasks) < MaxTasks
          /\ create_task(<<>>, "medium", requires_human, agent, text, {})
    \/ AssignAndRun(MachineA)
    \/ RunStart(MachineA)
    \/ \E status \in {"done", "failed"} : RunFinish(MachineA, status)
    \/ AnalyzeCrypto(MachineA)
    \/ CryptoReturn(MachineA)
    \/ RunHandlerRaises(MachineA)

\* the dispatch loop of the machine with the registered trading agent, run
\* again and again
RecoverNext ==
    \/ \E agent \in {<<>>, AlphaTrader} :
          Len(tasks) < MaxTasks
          /\ create_task(<<>>, "medium", FALSE, agent, {"BACKTEST"}, {})
    \/ AssignAndRun(MachineA)
    \/ RunStart(MachineA)
    \/ \E status \in {"done", "failed"} : RunFinish(MachineA, status)

(***************************************************************************)
(* Project lifecycle                                                       *)
(***************************************************************************)
\* Money is in cents.  The amounts of the model are 0.01 and 9.99 USD: for
\* their sums the float test abs(a - c) > 0.01 is the test |a - c| > 1 cent.
ScaleThreshold == 1000      \* scale_threshold_usd, "10"
ArchiveDays == 21           \* archive_days_no_revenue
RevenueTolerance == 1       \* 0.01
RevenueWindow == 30         \* since_days
TotalWindow == 3650
NoActivityDays == 999

Shop == <<"Shop">>
ShopPro == <<"Shop", " Pro">>
ProjectIds == {"s1", "s2"}

Abs(x) == IF x < 0 THEN 0 - x ELSE x

RECURSIVE SumAmounts(_, _, _)
SumAmounts(rows, project_name, cutoff) ==
    IF rows = <<>> THEN 0
    ELSE (IF Contains(Head(rows).project, project_name) /\ Head(rows).date >= cutoff
          THEN Head(rows).amount ELSE 0)
         + SumAmounts(Tail(rows), project_name, cutoff)

\* NotionFarmClient.get_revenue_for_project
get_revenue_for_project(project_name, since_days) ==
    SumAmounts(ledger, project_name, today - since_days)

\* NotionFarmClient.log_revenue
log_revenue(project_name, amount) ==
    /\ ledger' = Append(ledger, [project |-> project_name, amount |-> amount, date |-> today])
    /\ UNCHANGED <<projects, today, leval>>
    /\ UNCHANGED <<routerVars, learnVars, queueVars, ideaVars>>

AdvanceDays(n) ==
    /\ today' = today + n
    /\ UNCHANGED <<projects, ledger, leval>>
    /\ UNCHANGED <<routerVars, learnVars, queueVars, ideaVars>>

\* NotionFarmClient.update_project_status
update_project_status(rows, project_id, status, reason) ==
    [rows EXCEPT ![project_id].status = status,
                 ![project_id].last_activity = <<today>>,
                 ![project_id].archived_reason = IF reason THEN TRUE ELSE @]

\* NotionFarmClient.update_project_revenue
update_project_revenue(rows, project_id, total, revenue_30d) ==
    [rows EXCEPT ![project_id].revenue_total = total, ![project_id].revenue_30d = revenue_30d]

\* what the LLM extraction gives for a project of the lifecycle; the store
\* operations of these extractions succeed
LifeLearnings(outcome) ==
    IF outcome = "failure"
    THEN {ParsedNone, FailureLearning("", Str(<<"a">>, FALSE, FALSE))}
    ELSE {ParsedNone, SuccessLearning("saas", <<<<"n1">>>>)}

\* abs(actual_30d - revenue_30d) > 0.01
Refreshes(cached, actual_30d) == Abs(actual_30d - cached) > RevenueTolerance

\* faulty variant: the archive test looks at the age alone and is reached
\* by a project that was just moved to scaling
ShouldArchiveByAge(scale, days_since_activity, revenue_30d, status) ==
    days_since_activity > ArchiveDays /\ status # "scaling"

\* the archive test; a project that was moved to scaling leaves the round
\* (continue) before it
ShouldArchive(scale, days_since_activity, revenue_30d, status) ==
    /\ ~scale
    /\ days_since_activity > ArchiveDays
    /\ revenue_30d = 0
    /\ status # "scaling"

\* one round of the loop of ProjectManager.evaluate_active_projects, with
\* _scale_project.  written: the store write that follows the status update
\* (create_task of _scale_project, log_activity of the archive branch)
\* succeeds; when it raises, the round and the pass end there.
EvaluateProjectRound(project_id, written) ==
    LET project == projects[project_id]
        actual_30d == get_revenue_for_project(project.name, RevenueWindow)
        refresh == Refreshes(project.revenue_30d, actual_30d)
        revenue_30d == IF refresh THEN actual_30d ELSE project.revenue_30d
        refreshed == IF refresh
                     THEN update_project_revenue(projects, project_id,
                              get_revenue_for_project(project.name, TotalWindow), actual_30d)
                     ELSE projects
        scale == revenue_30d >= ScaleThreshold /\ project.status # "scaling"
        days_since_activity == IF project.last_activity = <<>> THEN NoActivityDays
                               ELSE today - project.last_activity[1]
        should_archive == ShouldArchive(scale, days_since_activity, revenue_30d,
                                        project.status)
        outcome == IF scale THEN "success" ELSE "failure"
    IN /\ project.status \in {"active", "scaling"}
       /\ ~written => (scale \/ should_archive)
       /\ projects' = IF should_archive
                      THEN update_project_status(refreshed, project_id, "archived", TRUE)
                      ELSE IF scale
                      THEN update_project_status(refreshed, project_id, "scaling", FALSE)
                      ELSE refreshed
       /\ tasks' = IF scale /\ written
                   THEN Append(tasks, Task(project.name, "high", FALSE, <<>>,
                                           {"RESEARCH", "ANALYZE", "MARKET"}, {"ANALYZE"}))
                   ELSE tasks
       /\ IF scale \/ (should_archive /\ written)
          THEN \E learning \in LifeLearnings(outcome) :
                  extract_from_project(
                      Project(<<project_id>>, project.name, "other", project.revenue_30d,
                              project.viability_score),
                      outcome, TRUE, learning, "ok")
          ELSE UNCHANGED learnVars
       /\ leval' = [id |-> <<project_id>>, before |-> project.status,
                    ledger_30d |-> actual_30d,
                    days |-> days_since_activity, scaled |-> scale,
                    archived |-> should_archive]
       /\ UNCHANGED <<ledger, today>>
       /\ UNCHANGED <<agent_rows, max_concurrent, autonomy_level, viability_threshold, parallel_max, proc, crashes>>
       /\ UNCHANGED <<routerVars, lidea, lcheck, lupdate, sched>>

\* the round as a step of its own
EvaluateProject(project_id, written) ==
    /\ EvaluateProjectRound(project_id, written)
    /\ UNCHANGED pass

ProjectRow(name, last_activity) ==
    [name |-> name, status |-> "active", revenue_30d |-> 0, revenue_total |-> 0,
     viability_score |-> <<64>>, last_activity |-> last_activity,
     archived_reason |-> FALSE]

NoEval == [id |-> <<>>, before |-> "", ledger_30d |-> 0, days |-> 0,
           scaled |-> FALSE, archived |-> FALSE]

LifeIdle ==
    /\ projects = [id \in ProjectIds |-> ProjectRow(IF id = "s1" THEN Shop ELSE ShopPro, <<0>>)]
    /\ ledger = <<>>
    /\ today = 0
    /\ leval = NoEval

LifeInit ==
    /\ projects = [id \in ProjectIds |->
                      IF id = "s1" THEN ProjectRow(Shop, <<0>>) ELSE ProjectRow(ShopPro, <<>>)]
    /\ ledger = <<>>
    /\ today = 0
    /\ leval = NoEval

MaxEntries == 2     \* revenue entries logged in one behaviour
MaxDay == 31        \* the last day of a behaviour

LifeNext ==
    \/ \E id \in ProjectIds, amount \in {1, 999} :
          Len(ledger) < MaxEntries /\ log_revenue(projects[id].name, amount)
    \/ \E n \in {10, 21} : today + n <= MaxDay /\ AdvanceDays(n)
    \/ \E id \in ProjectIds : EvaluateProject(id, TRUE)

\* the lifecycle with store writes that fail
ScaleNext ==
    \/ \E id \in ProjectIds :
          Len(ledger) < MaxEntries /\ log_revenue(projects[id].name, 999)
    \/ today + 21 <= MaxDay /\ AdvanceDays(21)
    \/ \E id \in ProjectIds, written \in BOOLEAN : EvaluateProject(id, written)

(***************************************************************************)
(* Ideas and viability checks                                              *)
(***************************************************************************)
NoIdea == [id |-> <<>>, had_own |-> FALSE, created |-> 0, moved |-> FALSE]

NoCheck == [row |-> <<>>, score |-> 0, recommendation |-> "", before |-> "",
            after |-> "", reason |-> FALSE]

NoPass == [pc |-> "idle", ideas |-> <<>>, evals |-> <<>>, loop_count |-> 0]

\* Orchestrator.__init__: self.config = {}; run_forever has not been called
NoSched == [stored |-> <<>>, config |-> <<>>, interval |-> 0, at_start |-> <<>>]

NoUpdate == [behind |-> FALSE, confirmed |-> FALSE, in_progress |-> 0, updated |-> FALSE]

IdeaIdle ==
    /\ lidea = NoIdea
    /\ lcheck = NoCheck
    /\ pass = NoPass
    /\ lupdate = NoUpdate
    /\ sched = NoSched

\* "viability" in title.lower() or "research" in title.lower(), for a task
\* that is pending or in_progress
IsOpenResearchTask(task) ==
    /\ task.status \in {"pending", "in_progress"}
    /\ task.title \cap {"VIABILITY", "RESEARCH"} # {}

\* get_tasks(status=None, project=name) keeps the tasks whose project
\* contains the name
HasResearchTask(project_name) ==
    \E i \in 1..Len(tasks) :
        Contains(tasks[i].project, project_name) /\ IsOpenResearchTask(tasks[i])

\* the task that process_new_ideas creates: title "Research: Viability check
\* for '<name>'", instructions "VIABILITY_CHECK\nDESCRIPTION: ...\nGOAL: ..."
ViabilityTask(project_name) ==
    Task(project_name, "high", FALSE, <<>>,
         {"VIABILITY_CHECK", "VIABILITY", "RESEARCH", "SCRIPT"}, {"RESEARCH", "VIABILITY"})

\* the store calls of one round, in the order the round makes them
IdeaCalls == <<"get_tasks", "create_task", "update_project_status", "log_activity">>

CallIndex(call) == CHOOSE i \in 1..Len(IdeaCalls) : IdeaCalls[i] = call

\* the call is made and returns: no earlier call of the round has raised
CallReturned(call, fail) == fail = "none" \/ CallIndex(call) < CallIndex(fail)

\* one round of the loop of ProjectManager.process_new_ideas; fail is the
\* store call that raises after its retries, or "none"
ProcessIdeaRound(project_id, fail) ==
    LET project == projects[project_id]
        skip == HasResearchTask(project.name)
        own == \E i \in 1..Len(tasks) :
                  tasks[i].project = project.name /\ IsOpenResearchTask(tasks[i])
        created == ~skip /\ CallReturned("create_task", fail)
        moved == ~skip /\ CallReturned("update_project_status", fail)
    IN /\ project.status = "idea"
       /\ fail \in {"none"} \cup {IdeaCalls[i] : i \in 1..Len(IdeaCalls)}
       /\ skip => fail \in {"none", "get_tasks"}
       /\ tasks' = IF created THEN Append(tasks, ViabilityTask(project.name)) ELSE tasks
       /\ projects' = IF moved
                      THEN update_project_status(projects, project_id, "research", FALSE)
                      ELSE projects
       /\ lidea' = [id |-> <<project_id>>, had_own |-> own,
                    created |-> IF created THEN 1 ELSE 0, moved |-> moved]
       /\ UNCHANGED <<ledger, today, leval, lcheck, lupdate, sched>>
       /\ UNCHANGED <<agent_rows, max_concurrent, autonomy_level, viability_threshold, parallel_max, crashes>>
       /\ UNCHANGED <<routerVars, learnVars>>

\* a round in which every store call returns
ProcessIdea(project_id) ==
    /\ ProcessIdeaRound(project_id, "none")
    /\ UNCHANGED <<proc, pass>>

ViabilityThreshold == 60

\* what the model's answer parses to; output that does not parse counts as
\* score 0 and NEEDS_RESEARCH
Analyses ==
    {[score |-> 0, recommendation |-> "NEEDS_RESEARCH"]} \cup
    [score : {59, 60}, recommendation : {"ACTIVATE", "REJECT", "NEEDS_RESEARCH"}]

\* NotionFarmClient.update_project_viability
update_project_viability(rows, project_id, score) ==
    [rows EXCEPT ![project_id].viability_score = <<score>>,
                 ![project_id].last_activity = <<today>>]

\* the execution tasks of a parsed plan
PlanTasks(project_name, n) ==
    [i \in 1..n |-> Task(project_name, "medium", FALSE, <<>>, {"CODE"}, {})]

MaxPlan == 1        \* tasks in a plan

\* ResearchAgent._viability_check and the rest of BaseAgent.run.  row is the
\* first project of the task's name in the order the store lists them, or
\* <<>> when there is none.
ViabilityCheck(m, analysis, row, plan) ==
    LET task == tasks[proc[m].cur]
        activate == analysis.recommendation = "ACTIVATE" /\ analysis.score >= ViabilityThreshold
        reject == ~activate /\ (analysis.recommendation = "REJECT"
                                \/ analysis.score < ViabilityThreshold)
        scored == IF row = <<>> THEN projects
                  ELSE update_project_viability(projects, row[1], analysis.score)
        after == IF row = <<>> THEN scored
                 ELSE IF activate THEN update_project_status(scored, row[1], "active", FALSE)
                 ELSE IF reject THEN update_project_status(scored, row[1], "archived", TRUE)
                 ELSE scored
    IN /\ proc[m].pc = "running"
       /\ IsViabilityRun(m)
       /\ IF row = <<>> THEN \A id \in ProjectIds : projects[id].name # task.project
          ELSE row[1] \in ProjectIds /\ projects[row[1]].name = task.project
       /\ projects' = after
       /\ tasks' = update_task(
                      tasks \o (IF activate THEN PlanTasks(task.project, plan) ELSE <<>>),
                      proc[m].cur, "done", proc[m].agent.name)
       /\ agent_rows' = AgentsAfterRun(m, "done")
       /\ proc' = ProcAfterRun(m)
       /\ lcheck' = IF row = <<>> THEN [NoCheck EXCEPT !.score = analysis.score,
                                                       !.recommendation = analysis.recommendation]
                    ELSE [row |-> row, score |-> analysis.score,
                          recommendation |-> analysis.recommendation,
                          before |-> projects[row[1]].status,
                          after |-> after[row[1]].status,
                          reason |-> after[row[1]].archived_reason]
       /\ UNCHANGED <<ledger, today, leval, lidea, pass, lupdate, sched>>
       /\ UNCHANGED <<max_concurrent, autonomy_level, viability_threshold, parallel_max, crashes>>
       /\ UNCHANGED <<routerVars, learnVars>>

IdeasInit ==
    /\ tasks = <<>>
    /\ agent_rows = [n \in {BetaResearch} |->
                       [id |-> "row1", name |-> n, type |-> "research", machine |-> MachineB,
                        status |-> "idle", tasks_completed |-> 0, success_sum |-> 0]]
    /\ max_concurrent = 3
    /\ autonomy_level = 7
    /\ viability_threshold \in {60, 70}
    /\ parallel_max = 10
    /\ proc = [m \in Machines |-> IdleProc]
    /\ crashes = 0
    /\ \E status \in {"idea", "scaling"}, other \in {Shop, ShopPro} :
          projects = [id \in ProjectIds |->
                        IF id = "s1" THEN [ProjectRow(Shop, <<0>>) EXCEPT !.status = status]
                        ELSE [ProjectRow(other, <<0>>) EXCEPT !.status = "idea"]]
    /\ ledger = <<>>
    /\ today = 0
    /\ leval = NoEval
    /\ lidea = NoIdea
    /\ lcheck = NoCheck
    /\ pass = NoPass
    /\ lupdate = NoUpdate
    /\ sched = NoSched

IdeasNext ==
    \/ \E id \in ProjectIds : ProcessIdea(id)
    \/ AssignAndRun(MachineA)
    \/ RunStart(MachineA)
    \/ RunFinish(MachineA, "failed")
    \/ \E analysis \in Analyses, plan \in 0..MaxPlan,
          row \in {<<>>} \cup {<<id>> : id \in ProjectIds} :
          ViabilityCheck(MachineA, analysis, row, plan)
    \/ RunFinish(MachineA, "done")

(***************************************************************************)
(* One iteration of the orchestrator loop: run_once from process_new_ideas *)
(* to the end of task dispatch, on one machine                             *)
(***************************************************************************)
MaxLoops == 12      \* iterations of run_once in one behaviour

\* the orders in which the store may list the projects
ProjectOrders == {<<"s1", "s2">>, <<"s2", "s1">>}

WithStatus(order, status) ==
    SelectSeq(order, LAMBDA id : projects[id].status = status)

PassRaised == [pass EXCEPT !.pc = "raised"]

\* run_once enters process_new_ideas, which lists the idea projects
RunOnceStart(order, ok) ==
    /\ pass.pc = "idle"
    /\ pass.loop_count < MaxLoops
    /\ pass' = IF ok
               THEN [pc |-> "ideas", ideas |-> WithStatus(order, "idea"), evals |-> <<>>,
                     loop_count |-> pass.loop_count + 1]
               ELSE [PassRaised EXCEPT !.loop_count = @ + 1]
    /\ UNCHANGED <<lidea, lcheck, lupdate, sched>>
    /\ UNCHANGED <<routerVars, learnVars, queueVars, lifeVars>>

\* the next idea of the list; an exception of a store call leaves the loop,
\* process_new_ideas and run_once
PassIdea(fail) ==
    /\ pass.pc = "ideas"
    /\ pass.ideas # <<>>
    /\ ProcessIdeaRound(Head(pass.ideas), fail)
    /\ pass' = IF fail = "none" THEN [pass EXCEPT !.ideas = Tail(@)]
               ELSE [PassRaised EXCEPT !.ideas = Tail(@)]
    /\ UNCHANGED proc

\* process_new_ideas has returned; evaluate_active_projects lists the active
\* and the scaling projects
PassIdeasDone(order, ok) ==
    /\ pass.pc = "ideas"
    /\ pass.ideas = <<>>
    /\ pass' = IF ok
               THEN [pass EXCEPT !.pc = "evaluate",
                                 !.evals = WithStatus(order, "active")
                                           \o WithStatus(order, "scaling")]
               ELSE PassRaised
    /\ UNCHANGED <<lidea, lcheck, lupdate, sched>>
    /\ UNCHANGED <<routerVars, learnVars, queueVars, lifeVars>>

\* the next project of the evaluation; the exception is that of its first
\* store call, get_revenue_for_project
PassEvaluate(ok) ==
    /\ pass.pc = "evaluate"
    /\ pass.evals # <<>>
    /\ IF ok
       THEN /\ EvaluateProjectRound(Head(pass.evals), TRUE)
            /\ pass' = [pass EXCEPT !.evals = Tail(@)]
       ELSE /\ pass' = [PassRaised EXCEPT !.evals = Tail(@)]
            /\ UNCHANGED <<lidea, lcheck, lupdate, sched>>
            /\ UNCHANGED <<routerVars, learnVars, queueVars, lifeVars>>

\* evaluate_active_projects has returned; _assign_and_run_tasks up to its
\* loop.  The exception is that of get_agents.
PassDispatch(m, ok) ==
    /\ pass.pc = "evaluate"
    /\ pass.evals = <<>>
    /\ proc[m].pc = "idle"
    /\ IF autonomy_level = 0
       THEN pass' = [pass EXCEPT !.pc = "tasks"] /\ UNCHANGED proc
       ELSE IF ~ok
       THEN pass' = PassRaised /\ UNCHANGED proc
       ELSE IF get_pending_tasks_for_machine(m, max_concurrent) = <<>>
       THEN pass' = [pass EXCEPT !.pc = "tasks"] /\ UNCHANGED proc
       ELSE /\ pass' = [pass EXCEPT !.pc = "tasks"]
            /\ proc' = [proc EXCEPT ![m] = Selection(m)]
    /\ UNCHANGED <<tasks, agent_rows, max_concurrent, autonomy_level, viability_threshold, parallel_max, crashes>>
    /\ UNCHANGED <<lidea, lcheck, lupdate, sched>>
    /\ UNCHANGED <<routerVars, learnVars, lifeVars>>

IdeasEvery == 12     \* loops between two idea generations

AutoTitle == {"AUTO-GENERATE", "IDEAS"}

\* ProjectManager.auto_generate_ideas: the task table after the call
auto_generate_ideas ==
    LET active_projects == {id \in ProjectIds :
                               projects[id].status \in {"active", "research", "scaling"}}
    IN IF Cardinality(active_projects) >= parallel_max THEN tasks
       ELSE Append(tasks, Task(<<>>, "low", FALSE, <<>>, {"GENERATE_IDEAS"}, AutoTitle))

\* faulty variant: the periodic jobs do not wait for the dispatch to end
RunOnceEndEarly(m) ==
    /\ pass.pc = "tasks"
    /\ pass' = [pass EXCEPT !.pc = "idle"]
    /\ tasks' = IF pass.loop_count = 1 \/ pass.loop_count % IdeasEvery = 0
                THEN auto_generate_ideas ELSE tasks
    /\ UNCHANGED <<agent_rows, max_concurrent, autonomy_level, viability_threshold, parallel_max, proc, crashes>>
    /\ UNCHANGED <<lidea, lcheck, lupdate, sched>>
    /\ UNCHANGED <<routerVars, learnVars, lifeVars>>

\* _assign_and_run_tasks has returned; the periodic jobs of run_once
RunOnceEnd(m) ==
    /\ pass.pc = "tasks"
    /\ proc[m].pc = "idle"
    /\ pass' = [pass EXCEPT !.pc = "idle"]
    /\ tasks' = IF pass.loop_count = 1 \/ pass.loop_count % IdeasEvery = 0
                THEN auto_generate_ideas ELSE tasks
    /\ UNCHANGED <<agent_rows, max_concurrent, autonomy_level, viability_threshold, parallel_max, proc, crashes>>
    /\ UNCHANGED <<lidea, lcheck, lupdate, sched>>
    /\ UNCHANGED <<routerVars, learnVars, lifeVars>>

PassInit ==
    /\ tasks = <<>>
    /\ agent_rows = [n \in {BetaResearch} |->
                       [id |-> "row1", name |-> n, type |-> "research", machine |-> MachineB,
                        status |-> "idle", tasks_completed |-> 0, success_sum |-> 0]]
    /\ max_concurrent = 3
    /\ autonomy_level \in {0, 7}
    /\ viability_threshold = 60
    /\ parallel_max \in {1, 10}
    /\ proc = [m \in Machines |-> IdleProc]
    /\ crashes = 0
    /\ \E s1 \in {"idea", "active"}, s2 \in {"idea", "research"} :
          projects = [id \in ProjectIds |->
                        IF id = "s1" THEN [ProjectRow(Shop, <<0>>) EXCEPT !.status = s1]
                        ELSE [ProjectRow(ShopPro, <<0>>) EXCEPT !.status = s2]]
    /\ ledger = <<>>
    /\ today = 0
    /\ leval = NoEval
    /\ lidea = NoIdea
    /\ lcheck = NoCheck
    /\ pass = NoPass
    /\ lupdate = NoUpdate
    /\ sched = NoSched

PassNext ==
    \/ \E order \in ProjectOrders, ok \in BOOLEAN : RunOnceStart(order, ok)
    \/ \E fail \in {"none"} \cup {IdeaCalls[i] : i \in 1..Len(IdeaCalls)} : PassIdea(fail)
    \/ \E order \in ProjectOrders, ok \in BOOLEAN : PassIdeasDone(order, ok)
    \/ \E ok \in BOOLEAN : PassEvaluate(ok)
    \/ \E ok \in BOOLEAN : PassDispatch(MachineA, ok)
    \/ pass.pc = "tasks" /\ RunStart(MachineA)
    \/ pass.pc = "tasks" /\ RunFinish(MachineA, "failed")
    \/ \E analysis \in Analyses, plan \in 0..MaxPlan,
          row \in {<<>>} \cup {<<id>> : id \in ProjectIds} :
          pass.pc = "tasks" /\ ViabilityCheck(MachineA, analysis, row, plan)
    \/ pass.pc = "tasks" /\ RunFinish(MachineA, "done")
    \/ RunOnceEnd(MachineA)

(***************************************************************************)
(* The loop interval                                                       *)
(***************************************************************************)
\* values of the key loop_interval_seconds in the store; <<>>: key absent
IntervalValues == {<<>>} \cup {<<n>> : n \in {0, 1, 10, 29, 30, 31, 60, 120, 300, 600, 900}}

\* an operator edits the System Config table
SetInterval(value) ==
    /\ sched.stored # value
    /\ sched' = [sched EXCEPT !.stored = value]
    /\ UNCHANGED <<lidea, lcheck, pass, lupdate>>
    /\ UNCHANGED <<routerVars, learnVars, queueVars, lifeVars>>

\* Orchestrator._refresh_config: a failed read keeps the config held
refresh_config(read_ok) == IF read_ok THEN sched.stored ELSE sched.config

\* Orchestrator.run_forever up to the end of its first run_once: the interval
\* is taken from self.config, then run_once refreshes the config
run_forever(read_ok) ==
    LET configured == IF sched.config = <<>> THEN 300 ELSE sched.config[1]
    IN /\ sched.interval = 0
       /\ sched' = [sched EXCEPT !.interval = IF configured < 30 THEN 30 ELSE configured,
                                 !.at_start = sched.stored,
                                 !.config = refresh_config(read_ok)]
       /\ UNCHANGED <<lidea, lcheck, pass, lupdate>>
       /\ UNCHANGED <<routerVars, learnVars, queueVars, lifeVars>>

\* a scheduled run_once: the config is refreshed, the schedule stays
ScheduledRun(read_ok) ==
    /\ sched.interval # 0
    /\ sched.config # refresh_config(read_ok)
    /\ sched' = [sched EXCEPT !.config = refresh_config(read_ok)]
    /\ UNCHANGED <<lidea, lcheck, pass, lupdate>>
    /\ UNCHANGED <<routerVars, learnVars, queueVars, lifeVars>>

IntervalInit ==
    /\ lidea = NoIdea
    /\ lcheck = NoCheck
    /\ pass = NoPass
    /\ lupdate = NoUpdate
    /\ \E value \in IntervalValues : sched = [NoSched EXCEPT !.stored = value]

IntervalNext ==
    \/ \E value \in IntervalValues : SetInterval(value)
    \/ \E read_ok \in BOOLEAN : run_forever(read_ok)
    \/ \E read_ok \in BOOLEAN : ScheduledRun(read_ok)

(***************************************************************************)
(* Self-update                                                             *)
(***************************************************************************)
\* deploy.self_update.check_and_update, called by the orchestrator of machine
\* m between two dispatches.  behind: origin/main differs from HEAD; read_ok:
\* get_tasks(status="in_progress") returns; pull_ok: git pull and pip install
\* succeed.
check_and_update(m, behind, read_ok, pull_ok) ==
    LET in_progress == Len(get_tasks("in_progress"))
        skipped == read_ok /\ in_progress > 0
        updated == behind /\ ~skipped /\ pull_ok
    IN /\ proc[m].pc = "idle"
       /\ lupdate' = [behind |-> behind, confirmed |-> behind /\ read_ok,
                      in_progress |-> in_progress, updated |-> updated]
       /\ proc' = IF updated THEN [proc EXCEPT ![m] = IdleProc] ELSE proc
       /\ UNCHANGED <<tasks, agent_rows, max_concurrent, autonomy_level, viability_threshold, parallel_max, crashes>>
       /\ UNCHANGED <<lidea, lcheck, pass, sched>>
       /\ UNCHANGED <<routerVars, learnVars, lifeVars>>

\* machine B runs tasks while machine A checks for updates
UpdateNext ==
    \/ \E priority \in {"urgent", "low"} :
          Len(tasks) < MaxTasks /\ create_task(<<>>, priority, FALSE, <<>>, {"RESEARCH"}, {})
    \/ AssignAndRun(MachineB)
    \/ RunStart(MachineB)
    \/ \E status \in {"done", "failed"} : RunFinish(MachineB, status)
    \/ \E behind, read_ok, pull_ok \in BOOLEAN :
          check_and_update(MachineA, behind, read_ok, pull_ok)

(***************************************************************************)
(* Specifications                                                          *)
(***************************************************************************)
InitRouter == RouterInit /\ LearnIdle /\ QueueIdle /\ LifeIdle /\ IdeaIdle

SpecRouter == InitRouter /\ [][RouterNext]_vars

InitLearn == RouterIdle /\ LearnIdle /\ QueueIdle /\ LifeIdle /\ IdeaIdle

SpecLearn == InitLearn /\ [][LearnNext]_vars

SpecInterleave == InitLearn /\ [][InterleaveNext]_vars

InitRing == RouterIdle /\ RingInit /\ QueueIdle /\ LifeIdle /\ IdeaIdle

SpecRing == InitRing /\ [][RingNext]_vars

InitQueue == RouterIdle /\ LearnIdle /\ QueueInit /\ LifeIdle /\ IdeaIdle

SpecQueue == InitQueue /\ [][QueueNext]_vars

InitSelect == RouterIdle /\ LearnIdle /\ SelectInit /\ LifeIdle /\ IdeaIdle

SpecSelect == InitSelect /\ [][SelectNext]_vars

InitLife == RouterIdle /\ LearnIdle /\ QueueIdle /\ LifeInit /\ IdeaIdle

SpecLife == InitLife /\ [][LifeNext]_vars

SpecScale == InitLife /\ [][ScaleNext]_vars

InitTrade == RouterIdle /\ LearnIdle /\ TradeInit /\ LifeIdle /\ IdeaIdle

SpecTrade == InitTrade /\ [][TradeNext]_vars

\* run_forever calls run_once on every tick, and a started execution ends
SpecRecover ==
    /\ InitTrade
    /\ [][RecoverNext]_vars
    /\ WF_vars(AssignAndRun(MachineA))
    /\ WF_vars(RunStart(MachineA))
    /\ WF_vars(\E status \in {"done", "failed"} : RunFinish(MachineA, status))

InitUpdate == RouterIdle /\ LearnIdle /\ QueueInit /\ LifeIdle /\ IdeaIdle

SpecUpdate == InitUpdate /\ [][UpdateNext]_vars

InitAgents == RouterIdle /\ LearnIdle /\ AgentsInit /\ LifeIdle /\ IdeaIdle

SpecAgents == InitAgents /\ [][AgentsNext]_vars

InitIdeas == RouterIdle /\ LearnIdle /\ IdeasInit

SpecIdeas == InitIdeas /\ [][IdeasNext]_vars

\* the orchestrator keeps running: a step that can be taken is taken
SpecResearch == InitIdeas /\ [][IdeasNext]_vars /\ WF_vars(IdeasNext)

InitPass == RouterIdle /\ LearnIdle /\ PassInit

SpecPass == InitPass /\ [][PassNext]_vars

InitInterval == RouterIdle /\ LearnIdle /\ QueueIdle /\ LifeIdle /\ IntervalInit

SpecInterval == InitInterval /\ [][IntervalNext]_vars

(***************************************************************************)
(* Properties                                                              *)
(***************************************************************************)
TierRank(t) == CASE t = "ollama" -> 0 [] t = "groq" -> 1 [] t = "claude" -> 2

\* C1: in an auto-routed call for a level with a groq entry the providers are
\* invoked in the order local, free remote, paid; the paid tier is invoked only
\* after every earlier invocation failed, and, when the free remote tier has a
\* key, only after the free remote tier was invoked.
C1_TierOrder ==
    (rforce = "" /\ "groq" \in DOMAIN MODEL_ROUTING(rlevel)) =>
        /\ \A i, j \in 1..Len(rlog) :
              i < j => TierRank(rlog[i].tier) <= TierRank(rlog[j].tier)
        /\ \A j \in 1..Len(rlog) :
              rlog[j].tier = "claude" =>
                 /\ \A i \in 1..(j - 1) : rlog[i].outcome # "ok"
                 /\ groq_key => \E i \in 1..(j - 1) : rlog[i].tier = "groq"
        /\ (rpc = "claude" /\ groq_key) => \E i \in 1..Len(rlog) : rlog[i].tier = "groq"

\* C1 witness: local tier probed down, free remote tier tried and failed, paid
\* tier then invoked
C1_Witness ==
    /\ rforce = "" /\ "groq" \in DOMAIN MODEL_ROUTING(rlevel)
    /\ ollama_up = "down" /\ groq_key
    /\ Len(rlog) >= 2
    /\ rlog[1].tier = "groq" /\ rlog[Len(rlog)].tier = "claude"

\* C2: an auto-routed call in which no tier produced a response ends with the
\* router's NoProviderAvailable error.
C2_NoTierSucceeds ==
    (rpc = "returned" /\ rforce = "" /\ rresult # "response")
        => rresult = "NoProviderAvailable"

\* C3: once extract_from_project has returned true for a project with a
\* non-empty id, every later call with that id returns false and leaves the
\* stored LearningsStore exactly as it was.
C3_Idempotent ==
    [][(lclock' = lclock + 1 /\ lcall'.id # <<>> /\ lcall'.id \in ok_ids)
          => (~lcall'.ret /\ stored' = stored)]_vars

\* C4: after every merge the bounded lists respect their caps, and
\* failure_patterns holds exactly the min(n, 20) most recent of the n failure
\* entries inserted so far, in insertion order.
C4_BoundedRings ==
    /\ Len(stored.successful_patterns) <= 20
    /\ Len(stored.failure_patterns) <= 20
    /\ Len(stored.market_insights) <= 10
    /\ Len(stored.avoid_list) <= 15
    /\ stored.failure_patterns = LastN(fail_hist, 20)

StoredCount(q) ==
    Cardinality({i \in 1..Len(stored.failure_patterns) :
                    Lower(stored.failure_patterns[i].avoid_pattern) = Lower(q)})

Listed(avoid_list, q) ==
    \E i \in 1..Len(avoid_list) : Lower(avoid_list[i]) = Lower(Strip(q))

\* C5: an avoid pattern is appended to avoid_list exactly at a merge where it
\* matches, ignoring case, at least 2 stored failure entries and is not yet
\* listed; a pattern present in exactly 2 stored failure entries is in
\* avoid_list, one present in exactly 1 is not, and avoid_list never holds two
\* entries that are equal ignoring case.
C5_AvoidPromotion ==
    /\ [](\A i \in 1..Len(stored.failure_patterns) :
            LET q == stored.failure_patterns[i].avoid_pattern
            IN Truthy(Strip(q)) =>
                 /\ StoredCount(q) = 2 => Listed(stored.avoid_list, q)
                 /\ StoredCount(q) = 1 => ~Listed(stored.avoid_list, q))
    /\ [](\A i, j \in 1..Len(stored.avoid_list) :
            Lower(stored.avoid_list[i]) = Lower(stored.avoid_list[j]) => i = j)
    /\ [][stored'.avoid_list # stored.avoid_list =>
            /\ fail_hist' # fail_hist
            /\ LET x == stored'.avoid_list[Len(stored'.avoid_list)]
               IN /\ Cardinality({i \in 1..Len(stored'.failure_patterns) :
                        Lower(stored'.failure_patterns[i].avoid_pattern) = Lower(x)}) >= 2
                  /\ ~Listed(stored.avoid_list, x)]_vars


\* ---- task queue ----
SelIds(m) == [i \in 1..Len(proc[m].sel) |-> proc[m].sel[i].id]

Dispatchable == {i \in 1..Len(tasks) : tasks[i].status = "pending" /\ ~tasks[i].requires_human}

\* i comes before j: more urgent, or as urgent and created earlier
Before(i, j) ==
    \/ PriorityRank(tasks[i].priority) < PriorityRank(tasks[j].priority)
    \/ /\ PriorityRank(tasks[i].priority) = PriorityRank(tasks[j].priority)
       /\ i < j

\* in_progress tasks that the machine's own agents started
StartedHere(m) ==
    Cardinality({i \in 1..Len(tasks) : tasks[i].status = "in_progress" /\ tasks[i].started_by = m})

Budget(m) ==
    IF max_concurrent - StartedHere(m) > 0 THEN max_concurrent - StartedHere(m) ELSE 0

\* C6: what get_pending_tasks_for_machine returns is made of pending tasks
\* that need no human, ordered urgent, high, medium, low with creation order
\* kept among equals, and it is the first "budget" tasks of that order.
C6_PriorityOrder ==
    \A m \in Machines :
        proc[m].pc = "loop" =>
            LET r == SelIds(m)
                n == Cardinality(Dispatchable)
            IN /\ Range(r) \subseteq Dispatchable
               /\ Len(r) = (IF n < Budget(m) THEN n ELSE Budget(m))
               /\ \A i, j \in 1..Len(r) : i < j => Before(r[i], r[j])
               /\ \A t \in Dispatchable \ Range(r) : \A i \in 1..Len(r) : Before(r[i], t)

\* the urgency list [low, urgent, medium, urgent, high] with a budget of 3
\* gave the two urgent tasks in creation order and then the high one
C6_Witness ==
    /\ Len(tasks) = 5
    /\ [i \in 1..5 |-> tasks[i].priority] = <<"low", "urgent", "medium", "urgent", "high">>
    /\ \A i \in 1..5 : ~tasks[i].requires_human
    /\ max_concurrent = 3
    /\ proc[MachineA].pc = "loop"
    /\ SelIds(MachineA) = <<2, 4, 5>>

\* C7: the selection holds at most max(0, max_concurrent - k) tasks, k being
\* the in_progress tasks this machine's agents started, and the machine never
\* has more than max_concurrent tasks in_progress.
C7_LoadBound ==
    \A m \in Machines :
        /\ proc[m].pc = "idle" =>
              Len(get_pending_tasks_for_machine(m, max_concurrent)) <= Budget(m)
        /\ StartedHere(m) <= max_concurrent

\* C8: no step takes a task that requires a human from pending to in_progress.
C8_HumanTasksStay ==
    [][\A i \in 1..Len(tasks) :
          (tasks[i].status = "pending" /\ tasks'[i].status = "in_progress")
              => ~tasks[i].requires_human]_vars

\* a task that requires a human is still pending although a task created
\* after it, and no more urgent, has been dispatched
C8_Witness ==
    \E i, j \in 1..Len(tasks) :
        /\ i < j
        /\ tasks[i].requires_human /\ tasks[i].status = "pending"
        /\ PriorityRank(tasks[i].priority) <= PriorityRank(tasks[j].priority)
        /\ ~tasks[j].requires_human /\ tasks[j].status \in {"in_progress", "done", "failed"}


\* ---- project lifecycle ----
\* C9: an evaluation moves an active project to scaling exactly when its
\* revenue of the last 30 days is at least scale_threshold_usd, and never
\* moves a project that is already scaling.
C9_ScaleAtThreshold ==
    leval.id # <<>> =>
        /\ leval.before = "active" => (leval.scaled <=> leval.ledger_30d >= ScaleThreshold)
        /\ leval.before = "scaling" => ~leval.scaled

\* C10: an evaluation archives an active project exactly when its last
\* activity is more than archive_days_no_revenue days old and its revenue of
\* the last 30 days is exactly zero; a scaling project is not archived.
C10_ArchiveWhenStale ==
    leval.id # <<>> =>
        /\ leval.before = "active" =>
              (leval.archived <=> (leval.days > ArchiveDays /\ leval.ledger_30d = 0))
        /\ leval.before = "scaling" => ~leval.archived


\* C11: an evaluation that moves a project to scaling does not archive it,
\* however old its last activity is, and the project is in scaling
\* afterwards; no project whose revenue of the last 30 days reaches the
\* threshold is archived.
C11_ScaledNotArchived ==
    /\ leval.scaled => (~leval.archived /\ projects[leval.id[1]].status = "scaling")
    /\ (leval.id # <<>> /\ leval.ledger_30d >= ScaleThreshold) => ~leval.archived

\* a project whose last activity was older than archive_days_no_revenue was
\* moved to scaling
C11_Witness ==
    /\ leval.scaled
    /\ leval.days > ArchiveDays /\ leval.days < NoActivityDays
    /\ projects[leval.id[1]].status = "scaling"


\* ---- ideas and viability checks ----
\* C12: for an idea without an open research task of its own project,
\* process_new_ideas creates exactly one research task and moves the idea to
\* research; for an idea that has one it creates none.
C12_OneResearchTask ==
    lidea.id # <<>> =>
        /\ ~lidea.had_own => (lidea.created = 1 /\ lidea.moved)
        /\ lidea.had_own => lidea.created = 0


LifecycleEdges ==
    {<<"idea", "research">>, <<"research", "active">>, <<"research", "archived">>,
     <<"active", "scaling">>, <<"active", "archived">>}

\* C13: every change of a project's status follows an edge of the lifecycle
\* graph; a scaling or archived project is never changed.
C13_StatusGraph ==
    [][\A id \in ProjectIds :
          projects'[id].status # projects[id].status
              => <<projects[id].status, projects'[id].status>> \in LifecycleEdges]_vars


\* C14: after a viability check for a project in research, the
\* project is active when the score reaches the threshold and the
\* recommendation is ACTIVATE, and archived with a reason in every other
\* case.
C14_ViabilityDecides ==
    (lcheck.row # <<>> /\ lcheck.before = "research") =>
        IF lcheck.score >= ViabilityThreshold /\ lcheck.recommendation = "ACTIVATE"
        THEN lcheck.after = "active"
        ELSE lcheck.after = "archived" /\ lcheck.reason


\* ---- concurrent orchestrators ----
\* C15: no task is being run by the agents of two machines at the same time.
C15_SingleExecution ==
    \A m1, m2 \in Machines :
        (/\ proc[m1].pc = "running"
         /\ proc[m2].pc = "running"
         /\ proc[m1].cur = proc[m2].cur) => m1 = m2


\* ---- the loop survives failed store operations ----
\* C16: a store operation that fails during an iteration does not make
\* run_once raise: the iteration is never left with an exception.
C16_RunOnceNeverRaises == pass.pc # "raised"


\* ---- trading signals need a human ----
\* C17: when the run of a crypto analysis returns for a task whose
\* requires_human flag is false, the task's status is needs_human.
C17_SignalNeedsHuman ==
    [][\A m \in Machines :
          (/\ proc[m].pc = "executed"
           /\ proc'[m].pc = "loop"
           /\ ~tasks[proc[m].cur].requires_human)
          => tasks'[proc[m].cur].status = "needs_human"]_vars


\* ---- self-update waits for running work ----
\* C18: check_and_update pulls and restarts only after its check has
\* confirmed that no task is in_progress.
C18_UpdateOnlyWhenQuiet ==
    lupdate.updated => (lupdate.confirmed /\ lupdate.in_progress = 0)


\* ---- the learnings store is never reset ----
\* C19: no extract_from_project call resets the stored LearningsStore: every
\* recorded project id stays recorded and total_projects_analyzed never
\* decreases.
C19_StoreNeverReset ==
    [][/\ Range(stored.meta.analyzed_project_ids)
             \subseteq Range(stored'.meta.analyzed_project_ids)
       /\ stored'.meta.total_projects_analyzed >= stored.meta.total_projects_analyzed]_vars


\* ---- completed_at ----
\* C20: completed_at of a task is written only by an update that sets the
\* status to done or failed; an update to pending, in_progress or needs_human
\* leaves it as it was, and a new task has none.
C20_CompletedAtOnlyOnFinish ==
    [][\A i \in 1..Len(tasks') :
          (tasks'[i].completed_at /\ (i > Len(tasks) \/ ~tasks[i].completed_at))
          => tasks'[i].status \in {"done", "failed"}]_vars

C20_Witness ==
    \E i, j \in 1..Len(tasks) :
        /\ tasks[i].status = "done" /\ tasks[i].completed_at
        /\ tasks[j].status = "needs_human" /\ ~tasks[j].completed_at


\* ---- the revenue an evaluation compares ----
\* C21: the revenue that an evaluation compares with the threshold and with
\* zero is the ledger sum of the last 30 days.  The compared value is the
\* revenue_30d field as the round leaves it: the ledger sum when the round
\* refreshed the field, the cached value when it did not.
C21_ComparesLedgerSum ==
    leval.id # <<>> => projects[leval.id[1]].revenue_30d = leval.ledger_30d


\* ---- the configured viability threshold ----
\* C22: with the store's viability_threshold set to T, a project in research
\* whose check recommends ACTIVATE is activated exactly when its score is at
\* least T.
C22_ConfiguredThreshold ==
    (lcheck.row # <<>> /\ lcheck.before = "research" /\ lcheck.recommendation = "ACTIVATE")
        => (lcheck.after = "active" <=> lcheck.score >= viability_threshold)


\* ---- activation comes with a plan ----
\* C23: a viability check that moves a project to active has created between
\* 3 and 7 tasks in the same execution.
C23_ActivatedWithPlan ==
    [][\A m \in Machines :
          (/\ proc[m].pc = "running"
           /\ IsViabilityRun(m)
           /\ proc'[m].pc = "loop"
           /\ \E id \in ProjectIds :
                 projects[id].status # "active" /\ projects'[id].status = "active")
          => (Len(tasks') - Len(tasks)) \in 3..7]_vars


\* ---- the local tier in auto routing ----
\* C24: in one auto-routed call the local completion is invoked at most
\* once; when it fails, the call does not end with that error but goes on
\* with the next configured tier.
C24_LocalOnceThenNext ==
    LET OllamaEntries == {i \in 1..Len(rlog) : rlog[i].tier = "ollama"}
    IN rforce = "" =>
        /\ Cardinality(OllamaEntries) <= 1
        /\ \A i \in OllamaEntries :
              rlog[i].outcome # "ok" =>
                 /\ rpc # "local"
                 /\ rresult # "ProviderError"
                 /\ (GroqEligible(rlevel) /\ rpc \in {"claude", "returned", "idle"})
                       => (i < Len(rlog) /\ rlog[i + 1].tier = "groq")
                 /\ (~GroqEligible(rlevel) /\ ClaudeEligible /\ rpc \in {"returned", "idle"})
                       => (i < Len(rlog) /\ rlog[i + 1].tier = "claude")

\* the local completion failed and the free remote tier answered
C24_Witness ==
    /\ rforce = ""
    /\ Len(rlog) = 2
    /\ rlog[1].tier = "ollama" /\ rlog[1].outcome = "err"
    /\ rlog[2] = Entry("groq", "ok")
    /\ rresult = "response"


C26_RetryPolicy ==
    \A tier \in {"groq", "claude"} :
        /\ Cardinality({i \in 1..Len(rlog) : rlog[i].tier = tier}) <= 3
        /\ \A i \in 1..(Len(rlog) - 1) :
              (rlog[i].tier = tier /\ rlog[i + 1].tier = tier) => rlog[i].outcome = "http"


\* ---- the model of a local invocation ----
\* C27: in auto routing the local provider is invoked only with the first
\* model, in listing order, that the local server has loaded at that time and
\* whose name starts with the base name of the level's routed local model;
\* without such a model it is not invoked.
C27_LoadedModelOnly ==
    [][(rforce = "" /\ Len(rlog') > Len(rlog) /\ rlog'[Len(rlog')].tier = "ollama")
          => /\ Matched(ollama_loaded, MODEL_ROUTING(rlevel).ollama) # "None"
             /\ rlog'[Len(rlog')].model
                   = Matched(ollama_loaded, MODEL_ROUTING(rlevel).ollama)]_vars


\* ---- the agent of a task ----
\* C28: get_agent_for_task returns the agent named on the task if it is not
\* working, else the first idle agent of the inferred type, else the first
\* idle agent, and none only when there is no such agent at all.
C28_AgentChoice ==
    [][\A m \in Machines :
          (proc[m].pc = "loop" /\ proc[m].sel # <<>> /\ proc'[m] # proc[m]) =>
             LET task == Head(proc[m].sel)
                 Named(a) == task.agent # <<>> /\ a.name = task.agent /\ a.status # "working"
                 Idle(a) == a.status \in {"idle", ""}
                 Typed(a) == Idle(a) /\ a.type = infer_agent_type(task.text \cup task.title)
                 named == FirstWhere(proc[m].agents, Named)
                 typed == FirstWhere(proc[m].agents, Typed)
                 idle == FirstWhere(proc[m].agents, Idle)
                 expected == IF named # NoAgent THEN named
                             ELSE IF typed # NoAgent THEN typed ELSE idle
             IN IF proc'[m].pc = "running" THEN proc'[m].agent = expected
                ELSE expected = NoAgent]_vars


\* C29: every execution of a task by a registered agent raises the stored
\* tasks_completed by exactly one and adds its outcome to the mean behind
\* success_rate: no stats update is lost.
C29_NoLostStats ==
    [][\A m \in Machines :
          (proc[m].pc = "running" /\ proc'[m].pc = "loop" /\ proc[m].agent.id # "") =>
             LET name == proc[m].agent.name
                 success == tasks'[proc[m].cur].status = "done"
             IN /\ agent_rows'[name].tasks_completed = agent_rows[name].tasks_completed + 1
                /\ agent_rows'[name].success_sum =
                       agent_rows[name].success_sum + (IF success THEN 1 ELSE 0)]_vars


\* C30: after two extract_from_project calls for two different projects,
\* interleaved in any way, the store holds the pattern entries and the ids
\* of both projects and total_projects_analyzed has grown by 2.
C30_BothMerged ==
    (held = {} /\ ok_ids = {p.id : p \in TwoProjects}) =>
        /\ stored.meta.total_projects_analyzed = 2
        /\ ok_ids \subseteq Range(stored.meta.analyzed_project_ids)
        /\ \A p \in TwoProjects :
              \E e \in Range(stored.successful_patterns) \cup Range(stored.failure_patterns) :
                 e.project = p.name


\* ---- failures of an execution ----
\* C31: when _execute raises, the task ends failed with completed_at set,
\* run returns and the orchestrator goes on with the remaining selected
\* tasks; a selection never contains a failed task.
C31_FailureIsContained ==
    [][\A m \in Machines :
          /\ (/\ proc[m].pc = "running" /\ proc'[m].pc \notin {"running", "executed"}
              /\ crashes' = crashes /\ tasks'[proc[m].cur].status # "done")
             => /\ tasks'[proc[m].cur].status = "failed"
                /\ tasks'[proc[m].cur].completed_at
                /\ proc'[m].pc = "loop"
                /\ proc'[m].sel = Tail(proc[m].sel)
          /\ (proc[m].pc = "idle" /\ proc'[m].pc = "loop")
             => \A i \in 1..Len(proc'[m].sel) : tasks[proc'[m].sel[i].id].status # "failed"]_vars


C35_IdempotentGeneration ==
    [][(Len(tasks') > Len(tasks) /\ tasks'[Len(tasks')].title = AutoTitle)
          => /\ \A i \in 1..Len(tasks) :
                   tasks[i].title = AutoTitle => tasks[i].status \notin {"pending", "in_progress"}
             /\ Cardinality({id \in ProjectIds :
                   projects[id].status \in {"active", "research", "scaling"}}) < parallel_max]_vars


\* ---- the loop interval ----
\* C33: the interval run_forever schedules is the store's
\* loop_interval_seconds, raised to 30 when lower, and 300 only when the key
\* is absent.
C33_IntervalFromStore ==
    sched.interval # 0 =>
        sched.interval = (IF sched.at_start = <<>> THEN 300
                          ELSE IF sched.at_start[1] < 30 THEN 30 ELSE sched.at_start[1])


\* ---- what goes with a transition ----
\* C34: a transition to scaling comes with one extraction call and exactly
\* one scaling-analysis task for the project, a transition from active to
\* archived with one extraction call, and the evaluation of a project that
\* is already scaling with neither.
C34_TransitionEffects ==
    [][\A id \in ProjectIds :
          LET before == projects[id].status
              after == projects'[id].status
              called == lclock' = lclock + 1 /\ lcall'.id = <<id>>
          IN /\ (before # "scaling" /\ after = "scaling")
                => /\ called
                   /\ Len(tasks') = Len(tasks) + 1
                   /\ tasks'[Len(tasks')].project = projects[id].name
             /\ (before = "active" /\ after = "archived") => called
             /\ (before = "scaling" /\ leval' # leval /\ leval'.id = <<id>>)
                => (tasks' = tasks /\ lclock' = lclock)]_vars


\* ---- category performance ----
\* C36: the counts of category_performance add up to
\* total_projects_analyzed, each category's successes lie within its count,
\* and the failures counted for a category are the failure learnings merged
\* for it.
C36_CategoryCounts ==
    LET perf == stored.category_performance
        RECURSIVE SumCount(_)
        SumCount(S) == IF S = {} THEN 0
                       ELSE LET c == CHOOSE x \in S : TRUE
                            IN perf[c].count + SumCount(S \ {c})
    IN /\ SumCount(Categories) = stored.meta.total_projects_analyzed
       /\ \A c \in Categories :
             /\ perf[c].successes \in 0..perf[c].count
             /\ perf[c].count - perf[c].successes =
                   Cardinality({i \in 1..Len(fail_hist) : fail_hist[i].category = c})


\* ---- a failed extraction ----
\* C37: a call of extract_from_project that returns false leaves the stored
\* learnings as they were before the call.
C37_FalseLeavesStore ==
    [][(lclock' = lclock + 1 /\ ~lcall'.ret) => stored' = stored]_vars


\* ---- agents after a failure ----
\* C38: an agent whose execution failed does not keep the status error
\* forever, and a pending task that needs no human is eventually assigned.
C38_ErrorRecovers ==
    /\ \A n \in {AlphaTrader} :
          (agent_rows[n].status = "error" /\ \E i \in 1..Len(tasks) : tasks[i].status = "pending")
             ~> agent_rows[n].status # "error"
    /\ \A i \in 1..MaxTasks :
          (IF i <= Len(tasks)
           THEN tasks[i].status = "pending" /\ ~tasks[i].requires_human ELSE FALSE)
             ~> (IF i <= Len(tasks) THEN tasks[i].status # "pending" ELSE FALSE)


\* ---- disabled agents ----
\* C39: get_agent_for_task never returns an agent whose status is disabled,
\* whether or not the task names it.
C39_DisabledNeverRuns ==
    [][\A m \in Machines :
          (proc[m].pc = "loop" /\ proc'[m].pc = "running")
             => proc'[m].agent.status # "disabled"]_vars


\* ---- the end of research ----
\* C40: a project in research whose viability task has reached done or
\* failed eventually becomes active or archived.
C40_ResearchEnds ==
    \A id \in ProjectIds :
        (/\ projects[id].status = "research"
         /\ \E i \in 1..Len(tasks) :
               /\ tasks[i].project = projects[id].name
               /\ "VIABILITY_CHECK" \in tasks[i].text
               /\ tasks[i].status \in {"done", "failed"})
           ~> (projects[id].status \in {"active", "archived"})

====
